---- MODULE Spec2Model ----
(***************************************************************************)
(* robohub auth-service: the token-exchange handler (internal/httpapi),    *)
(* the per-repository rate limiter (internal/ratelimit), the policy        *)
(* enforcer (internal/policy) and the minter (internal/token), as a state  *)
(* machine of concurrent goroutines.                                       *)
(*                                                                         *)
(* Time is a discrete clock `now`.  A rate bucket holds its level in units *)
(* of 1/TicksPerToken of a token, so one tick of the clock refills one     *)
(* unit and one allowed call costs TicksPerToken units.                    *)
(***************************************************************************)
EXTENDS Integers, Sequences, FiniteSets, TLC

\* ------------------------------------------------------------------ bounds
NumThreads == 2
Burst == 1
TicksPerToken == 2
MaxTime == 2
MaxCalls == 3
TokenTTL == 3
JwksTTL == 2
ClockSkew == 1
TicksPerSecond == 2

\* --------------------------------------------------------------- constants
StatusOK == 200
StatusBadRequest == 400
StatusUnauthorized == 401
StatusForbidden == 403
StatusTooManyRequests == 429
StatusInternalServerError == 500

Nil == 0
ZeroTime == 0 - 1

Threads == 1..NumThreads
Repos == {"test/repo", "evil/repo"}
Refs == {"refs/heads/main", "refs/heads/develop"}
Kids == {"kid1", "kid2"}

Min(a, b) == IF a < b THEN a ELSE b

\* ------------------------------------------------------ inputs, tokens
\* A JSON value of a token's payload: a string, a number (whole + tenths/10),
\* an array, or no value at all.
Str(s) == [type |-> "string", s |-> s, whole |-> 0, tenths |-> 0, list |-> <<>>]
Num(w, d) == [type |-> "number", s |-> "", whole |-> w, tenths |-> d, list |-> <<>>]
Arr(l) == [type |-> "array", s |-> "", whole |-> 0, tenths |-> 0, list |-> l]
Absent == [type |-> "absent", s |-> "", whole |-> 0, tenths |-> 0, list |-> <<>>]

\* NewGitHubVerifier's issuer and audience.
Issuer == "https://token.actions.githubusercontent.com"
Audience == "robohub"

\* The payloads of the assertions presented: a complete one, and the ways
\* one can differ from it.
GoodPayload ==
  [iss |-> Str(Issuer), aud |-> Str(Audience),
   exp |-> Num(MaxTime + ClockSkew + 1, 0), nbf |-> Absent, iat |-> Num(0, 0),
   repository |-> Str("test/repo"), ref |-> Str("refs/heads/main"),
   actor |-> Str("octocat"), run_id |-> Str("77"),
   workflow_ref |-> Str("ci.yml@refs/heads/main"), job_workflow_ref |-> Absent]
Payloads ==
  {GoodPayload,
   [GoodPayload EXCEPT !.iss = Str("https://evil.example")],
   [GoodPayload EXCEPT !.iss = Absent],
   [GoodPayload EXCEPT !.iss = Str("https://evil.example"), !.exp = Num(1, 0)],
   [GoodPayload EXCEPT !.aud = Str("other"), !.nbf = Num(MaxTime + ClockSkew + 1, 0)],
   [GoodPayload EXCEPT !.aud = Arr(<<Str("other"), Num(1, 0), Str(Audience)>>)],
   [GoodPayload EXCEPT !.aud = Arr(<<Str("other")>>)],
   [GoodPayload EXCEPT !.aud = Arr(<<>>)],
   [GoodPayload EXCEPT !.aud = Str("other")],
   [GoodPayload EXCEPT !.aud = Num(1, 0)],
   [GoodPayload EXCEPT !.aud = Absent],
   [GoodPayload EXCEPT !.exp = Num(1, 0)],
   [GoodPayload EXCEPT !.exp = Absent, !.iat = Absent],
   [GoodPayload EXCEPT !.exp = Str("never")],
   [GoodPayload EXCEPT !.nbf = Num(MaxTime, 0)],
   [GoodPayload EXCEPT !.nbf = Num(0, 0)],
   [GoodPayload EXCEPT !.nbf = Num(MaxTime, 5)],
   [GoodPayload EXCEPT !.exp = Num(0, 0), !.nbf = Num(1, 0)],
   [GoodPayload EXCEPT !.repository = Absent],
   [GoodPayload EXCEPT !.repository = Str("")],
   [GoodPayload EXCEPT !.repository = Str("evil/repo"),
                       !.ref = Str("refs/tags/v1")],
   [GoodPayload EXCEPT !.ref = Str("")],
   [GoodPayload EXCEPT !.ref = Num(1, 0)],
   [GoodPayload EXCEPT !.actor = Absent],
   [GoodPayload EXCEPT !.actor = Str("")],
   [GoodPayload EXCEPT !.run_id = Num(77, 0)],
   [GoodPayload EXCEPT !.run_id = Num(0, 0)],
   [GoodPayload EXCEPT !.run_id = Num(12, 5)],
   [GoodPayload EXCEPT !.run_id = Num(13, 5)],
   [GoodPayload EXCEPT !.run_id = Num(105, 7)],
   [GoodPayload EXCEPT !.run_id = Str("")],
   [GoodPayload EXCEPT !.run_id = Absent],
   [GoodPayload EXCEPT !.run_id = Arr(<<Str("77")>>)],
   [GoodPayload EXCEPT !.workflow_ref = Absent,
                       !.job_workflow_ref = Str("reusable.yml@refs/heads/main")],
   [GoodPayload EXCEPT !.workflow_ref = Str(""),
                       !.job_workflow_ref = Str("reusable.yml@refs/heads/main")],
   [GoodPayload EXCEPT !.workflow_ref = Num(1, 0), !.job_workflow_ref = Str("")],
   [GoodPayload EXCEPT !.workflow_ref = Absent]}
NoPayload ==
  [iss |-> Absent, aud |-> Absent, exp |-> Absent, nbf |-> Absent, iat |-> Absent,
   repository |-> Absent, ref |-> Absent, actor |-> Absent, run_id |-> Absent,
   workflow_ref |-> Absent, job_workflow_ref |-> Absent]

\* A token string: whether it has three decodable segments, its header's alg
\* and kid (hasKid: the header has a string kid), the key that signed it, and
\* its payload.
JWT(wellFormed, alg, hasKid, k, sig, payload) ==
  [wellFormed |-> wellFormed, alg |-> alg, hasKid |-> hasKid, kid |-> k,
   sig |-> sig, payload |-> payload]
NoJWT == JWT(FALSE, "", FALSE, "", "", NoPayload)

\* The headers presented, and what follows a header: signature and payload.
Headers ==
  {JWT(TRUE, a, TRUE, k, "", NoPayload) :
     a \in {"RS256", "PS256", "HS256", "ES256", "none", "XX"}, k \in Kids}
  \cup {JWT(TRUE, "RS256", FALSE, "", "", NoPayload),
        JWT(FALSE, "RS256", TRUE, "kid1", "", NoPayload)}
Signers == {"A1", "B1", "B2", "forged"}
SignedParts == {[sig |-> s, payload |-> p] : s \in Signers, p \in Payloads}

\* The tokens Verify is applied to: every signature and payload under an RSA
\* header with a kid, one of them under the other headers.
JWTs ==
  {[h EXCEPT !.sig = r.sig, !.payload = r.payload] :
     h \in {g \in Headers : g.alg = "RS256" /\ g.hasKid /\ g.wellFormed},
     r \in SignedParts}
  \cup {[h EXCEPT !.sig = "A1", !.payload = GoodPayload] : h \in Headers}

\* The tokens presented to the verifier running on its cache: a well-formed
\* header of each algorithm with a kid, and what follows the header.
SomeHeaders ==
  {h \in Headers :
     h.wellFormed /\ h.hasKid /\ (h.alg = "RS256" \/ h.kid = "kid1")}
SomeSignedParts ==
  {[sig |-> "A1", payload |-> GoodPayload],
   [sig |-> "forged", payload |-> GoodPayload]}

\* ------------------------------------------------------ inputs, requests
\* An oidc_token value of a request: the empty string, or an RS256 assertion
\* under kid1 that names a repository and a ref, signed by the provider's
\* key or forged.
EmptyToken == NoJWT
RepoPayload(r, f) == [GoodPayload EXCEPT !.repository = Str(r), !.ref = Str(f)]
GoodTokens == {JWT(TRUE, "RS256", TRUE, "kid1", "A1", RepoPayload(r, f)) :
                 r \in Repos, f \in Refs}
BadTokens == {JWT(TRUE, "RS256", TRUE, "kid1", "forged",
                  RepoPayload("evil/repo", "refs/heads/main"))}
\* A request body: not JSON at all, or a JSON object whose oidc_token is
\* absent/empty (Go decodes both to ""), or one carrying a token.
BadJSON == [json |-> FALSE, oidc_token |-> EmptyToken]
Bodies == {BadJSON, [json |-> TRUE, oidc_token |-> EmptyToken]}
          \cup {[json |-> TRUE, oidc_token |-> k] : k \in GoodTokens \cup BadTokens}
NoBody == [json |-> FALSE, oidc_token |-> JWT(FALSE, "none", FALSE, "", "", NoPayload)]

\* The enforcer configurations a server is constructed with.
EnforcerConfigs ==
  {[defaultBranchOnly |-> TRUE, defaultBranch |-> "main",
    allowList |-> {}, denyList |-> {"evil/repo"}],
   [defaultBranchOnly |-> FALSE, defaultBranch |-> "main",
    allowList |-> {"test/repo"}, denyList |-> {}]}

VARIABLES
  now,       \* the clock
  enforcer,  \* Server.policy: the enforcer's configuration
  limiters,  \* Limiter.limiters: key -> bucket pointer (Nil: no entry)
  heap,      \* the rate.Limiter objects allocated so far, by pointer
  madeFor,   \* history: the key each allocated bucket was created for
  mu,        \* Limiter.mu: the goroutine holding the write lock, or Nil
  pc,        \* each goroutine's position
  key,       \* each goroutine's `repository` argument of Allow
  lim,       \* each goroutine's `limiter` local of Allow
  ret,       \* each goroutine's result of Allow
  req,       \* each goroutine's request body (NoBody outside a request)
  claims,    \* each goroutine's `claims` local: what Verify returned
  resp,      \* each goroutine's responses written so far
  trace,     \* history: the stages each request invoked, with their outcome
  log,       \* history: per key, the results of the Allow calls, in order
  shadow,    \* history: per key, a bucket that only sees this key's calls
  ncalls,    \* history: calls started by the direct callers of a component
  keys,      \* JWKSCache.keys: kid -> key material (Nil: no entry)
  fetchedAt, \* JWKSCache.fetchedAt
  jwksMu,    \* JWKSCache.mu: the goroutine holding the write lock, or Nil
  kid,       \* each goroutine's `kid` argument of GetKey
  httpResp,  \* each goroutine's `resp` local of fetchJWKS
  newKeys,   \* each goroutine's `newKeys` local of fetchJWKS
  publicKey, \* each goroutine's result of GetKey: the key and the error
  tokenString, \* each goroutine's `tokenString` argument of Verify, as far as
             \* Verify has read it
  verified,  \* each goroutine's Verify call once it has returned: the token,
             \* what GetKey answered, and the result
  fetches,   \* history: the network fetches made so far
  fetched,   \* history: the network fetches made by each goroutine's call
  lastCommit,\* history: the key set the provider served at the last completed
             \* refresh, with the time it was stored
  decision,  \* an Evaluate call: the repository, the ref and the result
  minted,    \* a Mint call: the minter, the claims, the time and the result
  validated, \* a Validate call: the minter, the token, the time and the result
  passed,    \* history: the keys getLimiter has looked up or stored since
             \* construction or the last Reset
  lastReset, \* history: the Resets so far, and the buckets allocated and the
             \* time when the last one ran
  wake       \* each goroutine's Wait call: the time its reservation can act
             \* (ZeroTime outside Wait)

\* The state of the limiter, the handler and the policy.
serverVars == <<enforcer, limiters, heap, madeFor, mu, key, lim, ret,
                req, claims, resp, trace, log, shadow, passed, lastReset, wake>>
\* The state of the key cache and the verifier.
oidcVars == <<keys, fetchedAt, jwksMu, kid, httpResp, newKeys, publicKey,
              tokenString, verified, fetches, fetched, lastCommit>>

\* The pure operations' inputs and results.
pureVars == <<decision, minted, validated>>

vars == <<now, pc, ncalls, serverVars, oidcVars, pureVars>>

\* ------------------------------------------------- golang.org/x/time/rate
BucketCap == Burst * TicksPerToken

\* rate.NewLimiter: no tokens and the zero time as last update, so the first
\* use sees an elapsed time that fills the bucket.
NewRateLimiter == [tokens |-> 0, last |-> ZeroTime]

\* advance without the cap: an idle bucket fills beyond the burst.
Advance_NoCap(b, t) ==
  IF b.last = ZeroTime THEN BucketCap
  ELSE b.tokens + (IF t > b.last THEN t - b.last ELSE 0)

\* rate.Limiter.advance: the level at time t, capped at the burst.
Advance(b, t) ==
  IF b.last = ZeroTime THEN BucketCap
  ELSE Min(BucketCap, b.tokens + (IF t > b.last THEN t - b.last ELSE 0))

\* Allow whose refusal empties the bucket.
RateAllow_RefusedTakes(b, t) ==
  LET tokens == Advance(b, t) IN
  IF tokens >= TicksPerToken
    THEN [ok |-> TRUE, bucket |-> [tokens |-> tokens - TicksPerToken, last |-> t]]
    ELSE [ok |-> FALSE, bucket |-> [tokens |-> 0, last |-> t]]

\* rate.Limiter.Allow at time t: takes one token if there is one; a refused
\* call leaves the bucket as it was.
RateAllow(b, t) ==
  LET tokens == Advance(b, t) IN
  IF tokens >= TicksPerToken
    THEN [ok |-> TRUE, bucket |-> [tokens |-> tokens - TicksPerToken, last |-> t]]
    ELSE [ok |-> FALSE, bucket |-> b]

\* rate.Limiter.Wait at time t, its reservation: takes one token at once,
\* below zero if there is none, and acts when the debt is refilled.
RateReserve(b, t) ==
  LET tokens == Advance(b, t) - TicksPerToken IN
  [bucket |-> [tokens |-> tokens, last |-> t],
   timeToAct |-> IF tokens < 0 THEN t - tokens ELSE t]

\* ---------------------------------------------------------------- policy
NoError == [err |-> FALSE, reason |-> ""]
Error(reason) == [err |-> TRUE, reason |-> reason]

\* Evaluate looking at the allow list before the deny list.
Evaluate_AllowListFirst(e, repository, ref) ==
  IF e.allowList # {} /\ repository \notin e.allowList
    THEN Error("not in allowlist")
  ELSE IF repository \in e.denyList THEN Error("denied by policy")
  ELSE IF e.defaultBranchOnly /\ ref # "refs/heads/" \o e.defaultBranch
    THEN Error("only default branch")
  ELSE NoError

\* Evaluate taking an empty allow list for a list that allows nothing.
Evaluate_EmptyAllowList(e, repository, ref) ==
  IF repository \in e.denyList THEN Error("denied by policy")
  ELSE IF repository \notin e.allowList THEN Error("not in allowlist")
  ELSE IF e.defaultBranchOnly /\ ref # "refs/heads/" \o e.defaultBranch
    THEN Error("only default branch")
  ELSE NoError

\* Evaluate taking the bare branch name for the branch's ref.
Evaluate_BareBranch(e, repository, ref) ==
  IF repository \in e.denyList THEN Error("denied by policy")
  ELSE IF e.allowList # {} /\ repository \notin e.allowList
    THEN Error("not in allowlist")
  ELSE IF e.defaultBranchOnly /\ ref # "refs/heads/" \o e.defaultBranch
          /\ ref # e.defaultBranch
    THEN Error("only default branch")
  ELSE NoError

\* Enforcer.Evaluate
Evaluate(e, repository, ref) ==
  IF repository \in e.denyList THEN Error("denied by policy")
  ELSE IF e.allowList # {} /\ repository \notin e.allowList
    THEN Error("not in allowlist")
  ELSE IF e.defaultBranchOnly /\ ref # "refs/heads/" \o e.defaultBranch
    THEN Error("only default branch")
  ELSE NoError

\* The configurations NewEnforcer can build, and the repositories and refs
\* Evaluate is asked about.
PolicyRepos == Repos \cup {"other/repo"}
PolicyRefs == Refs \cup {"refs/tags/v1", "main", "refs/heads/main/x"}
PolicyConfigs ==
  {[defaultBranchOnly |-> b, defaultBranch |-> d, allowList |-> a, denyList |-> n] :
     b \in BOOLEAN, d \in {"main", "develop"},
     a \in SUBSET PolicyRepos, n \in SUBSET PolicyRepos}

Decision(repository, ref, result) ==
  [repository |-> repository, ref |-> ref, result |-> result]
PendingDecision == Error("pending")
NoDecision == Decision("", "", Error("none"))

\* Evaluate applied to one repository and ref.
ApplyEvaluate ==
  /\ decision.result = PendingDecision
  /\ decision' = [decision EXCEPT
                    !.result = Evaluate(enforcer, decision.repository, decision.ref)]
  /\ UNCHANGED <<now, pc, ncalls, serverVars, oidcVars, minted, validated>>

\* ---------------------------------------------------------------- minter
\* token.SignedString with HS256 and a []byte secret: never fails.
SignedString(tokenClaims) == [err |-> FALSE, token |-> tokenClaims]

\* What Mint returns when signing fails: "", time.Time{}, err.
MintFailure ==
  [err |-> TRUE,
   token |-> [iss |-> "", sub |-> "", aud |-> "", iat |-> 0, exp |-> 0,
              repo |-> "", ref |-> ""],
   exp |-> 0]

\* Minter.Mint at time t
Mint(c, t) ==
  LET exp == t + TokenTTL
      signed == SignedString([iss |-> "robohub-auth",
                              sub |-> "repo:" \o c.repository,
                              aud |-> "robohub-api",
                              iat |-> t, exp |-> exp,
                              repo |-> c.repository, ref |-> c.ref])
  IN IF signed.err THEN MintFailure
     ELSE [err |-> FALSE, token |-> signed.token, exp |-> exp]

\* --------------------------------------------------------------- limiter
\* getLimiter without the second look under the write lock: always creates.
getLimiterLocked_NoRecheck(m, h, k) ==
  [limiters |-> [m EXCEPT ![k] = Len(h) + 1],
   heap |-> Append(h, NewRateLimiter),
   limiter |-> Len(h) + 1, created |-> TRUE]

\* getLimiter that creates the bucket and forgets to put it in the map.
getLimiterLocked_NoStore(m, h, k) ==
  IF m[k] # Nil
    THEN [limiters |-> m, heap |-> h, limiter |-> m[k], created |-> FALSE]
    ELSE [limiters |-> m, heap |-> Append(h, NewRateLimiter),
          limiter |-> Len(h) + 1, created |-> TRUE]

\* getLimiter that hands every key the first bucket ever made.
getLimiterLocked_OneBucket(m, h, k) ==
  IF m[k] # Nil
    THEN [limiters |-> m, heap |-> h, limiter |-> m[k], created |-> FALSE]
  ELSE IF h # <<>>
    THEN [limiters |-> [m EXCEPT ![k] = 1], heap |-> h, limiter |-> 1,
          created |-> FALSE]
  ELSE [limiters |-> [m EXCEPT ![k] = Len(h) + 1],
        heap |-> Append(h, NewRateLimiter),
        limiter |-> Len(h) + 1, created |-> TRUE]

\* Limiter.getLimiter after the fast path missed: the body run under the
\* write lock. m is the map, h the allocated buckets, k the key.
getLimiterLocked(m, h, k) ==
  IF m[k] # Nil
    THEN [limiters |-> m, heap |-> h, limiter |-> m[k], created |-> FALSE]
    ELSE [limiters |-> [m EXCEPT ![k] = Len(h) + 1],
          heap |-> Append(h, NewRateLimiter),
          limiter |-> Len(h) + 1, created |-> TRUE]

\* Limiter.getLimiter, the read-locked lookup: found, or go for the write lock.
GetLimiterRead(t) ==
  /\ pc[t] = "rlock"
  /\ mu = Nil
  /\ IF limiters[key[t]] # Nil
       THEN /\ lim' = [lim EXCEPT ![t] = limiters[key[t]]]
            /\ passed' = passed \cup {key[t]}
            /\ pc' = [pc EXCEPT ![t] = "allow"]
       ELSE /\ pc' = [pc EXCEPT ![t] = "wlock"]
            /\ UNCHANGED <<lim, passed>>
  /\ UNCHANGED <<now, enforcer, limiters, heap, madeFor, mu, key, ret,
                 req, claims, resp, trace, log, shadow, ncalls>>
  /\ UNCHANGED <<oidcVars, pureVars, lastReset, wake>>

\* Limiter.getLimiter: l.mu.Lock()
GetLimiterLock(t) ==
  /\ pc[t] = "wlock"
  /\ mu = Nil
  /\ mu' = t
  /\ pc' = [pc EXCEPT ![t] = "locked"]
  /\ UNCHANGED <<now, enforcer, limiters, heap, madeFor, key, lim, ret,
                 req, claims, resp, trace, log, shadow, ncalls>>
  /\ UNCHANGED <<oidcVars, pureVars, passed, lastReset, wake>>

\* Limiter.getLimiter: the double check, the creation and the deferred Unlock.
GetLimiterCreate(t) ==
  /\ pc[t] = "locked"
  /\ mu = t
  /\ LET r == getLimiterLocked(limiters, heap, key[t]) IN
       /\ limiters' = r.limiters
       /\ heap' = r.heap
       /\ madeFor' = IF r.created THEN Append(madeFor, key[t]) ELSE madeFor
       /\ lim' = [lim EXCEPT ![t] = r.limiter]
  /\ passed' = passed \cup {key[t]}
  /\ mu' = Nil
  /\ pc' = [pc EXCEPT ![t] = "allow"]
  /\ UNCHANGED <<now, enforcer, key, ret, req, claims, resp, trace, log, shadow, ncalls>>
  /\ UNCHANGED <<oidcVars, pureVars, lastReset, wake>>

\* Limiter.Allow: limiter.Allow() on the bucket getLimiter returned.
BucketAllow(t) ==
  /\ pc[t] = "allow"
  /\ wake[t] = ZeroTime
  /\ LET r == RateAllow(heap[lim[t]], now)
         s == RateAllow(shadow[key[t]], now)
     IN /\ heap' = [heap EXCEPT ![lim[t]] = r.bucket]
        /\ ret' = [ret EXCEPT ![t] = r.ok]
        /\ shadow' = [shadow EXCEPT ![key[t]] = s.bucket]
        /\ log' = [log EXCEPT ![key[t]] =
                     Append(@, [ok |-> r.ok, solo |-> s.ok, at |-> now, by |-> t,
                                on |-> lim[t], op |-> "Allow"])]
  /\ pc' = [pc EXCEPT ![t] = "returned"]
  /\ UNCHANGED <<now, enforcer, limiters, madeFor, mu, key, lim,
                 req, claims, resp, trace, ncalls>>
  /\ UNCHANGED <<oidcVars, pureVars, passed, lastReset, wake>>

\* Limiter.GetLimiterCount
GetLimiterCount == Cardinality({k \in Repos : limiters[k] # Nil})

\* No Reset has run.
NoReset == [n |-> 0, mark |-> 0, at |-> 0]

\* Reset that leaves the map as it is.
resetLimiters_Keep(m) == m

\* Limiter.Reset, the assignment: a new, empty map.
resetLimiters(m) == [k \in Repos |-> Nil]

\* Limiter.Reset: Lock, the new map, the deferred Unlock.
Reset ==
  /\ mu = Nil
  /\ ncalls < MaxCalls
  /\ ncalls' = ncalls + 1
  /\ limiters' = resetLimiters(limiters)
  /\ passed' = {}
  /\ lastReset' = [n |-> lastReset.n + 1, mark |-> Len(heap), at |-> now]
  /\ UNCHANGED <<now, pc, enforcer, heap, madeFor, mu, key, lim, ret,
                 req, claims, resp, trace, log, shadow, wake>>
  /\ UNCHANGED <<oidcVars, pureVars>>

\* A goroutine calls Limiter.Wait(k) directly.
CallWait(t, k) ==
  /\ pc[t] = "idle"
  /\ ncalls < MaxCalls
  /\ ncalls' = ncalls + 1
  /\ key' = [key EXCEPT ![t] = k]
  /\ wake' = [wake EXCEPT ![t] = now]
  /\ pc' = [pc EXCEPT ![t] = "rlock"]
  /\ UNCHANGED <<now, enforcer, limiters, heap, madeFor, mu, lim, ret,
                 req, claims, resp, trace, log, shadow, passed, lastReset>>
  /\ UNCHANGED <<oidcVars, pureVars>>

\* Limiter.Wait: limiter.Wait(ctx) on the bucket getLimiter returned, the
\* reservation.
WaitReserve(t) ==
  /\ pc[t] = "allow"
  /\ wake[t] # ZeroTime
  /\ LET r == RateReserve(heap[lim[t]], now)
         s == RateReserve(shadow[key[t]], now)
     IN /\ heap' = [heap EXCEPT ![lim[t]] = r.bucket]
        /\ wake' = [wake EXCEPT ![t] = r.timeToAct]
        /\ shadow' = [shadow EXCEPT ![key[t]] = s.bucket]
        /\ log' = [log EXCEPT ![key[t]] =
                     Append(@, [ok |-> TRUE, solo |-> TRUE, at |-> now, by |-> t,
                                on |-> lim[t], op |-> "Wait"])]
  /\ pc' = [pc EXCEPT ![t] = "sleep"]
  /\ UNCHANGED <<now, enforcer, limiters, madeFor, mu, key, lim, ret,
                 req, claims, resp, trace, ncalls, passed, lastReset>>
  /\ UNCHANGED <<oidcVars, pureVars>>

\* Limiter.Wait: the sleep until the reservation can act is over; Wait
\* returns nil.
WaitReturn(t) ==
  /\ pc[t] = "sleep"
  /\ now >= wake[t]
  /\ ret' = [ret EXCEPT ![t] = TRUE]
  /\ wake' = [wake EXCEPT ![t] = ZeroTime]
  /\ pc' = [pc EXCEPT ![t] = "returned"]
  /\ UNCHANGED <<now, enforcer, limiters, heap, madeFor, mu, key, lim,
                 req, claims, resp, trace, log, shadow, ncalls, passed, lastReset>>
  /\ UNCHANGED <<oidcVars, pureVars>>

\* A goroutine calls Limiter.Allow(k) directly.
CallAllow(t, k) ==
  /\ pc[t] = "idle"
  /\ ncalls < MaxCalls
  /\ \A u \in Threads : u < t => (pc[u] # "idle" \/ ncalls > 0)
  /\ ncalls' = ncalls + 1
  /\ key' = [key EXCEPT ![t] = k]
  /\ pc' = [pc EXCEPT ![t] = "rlock"]
  /\ UNCHANGED <<now, enforcer, limiters, heap, madeFor, mu, lim, ret,
                 req, claims, resp, trace, log, shadow>>
  /\ UNCHANGED <<oidcVars, pureVars, passed, lastReset, wake>>

\* The direct call returns to its caller.
AllowReturn(t) ==
  /\ pc[t] = "returned"
  /\ req[t] = NoBody
  /\ pc' = [pc EXCEPT ![t] = "idle"]
  /\ UNCHANGED <<now, enforcer, limiters, heap, madeFor, mu, key, lim, ret,
                 req, claims, resp, trace, log, shadow, ncalls>>
  /\ UNCHANGED <<oidcVars, pureVars, passed, lastReset, wake>>

\* Time passes.
Tick ==
  /\ now < MaxTime
  /\ now' = now + 1
  /\ UNCHANGED <<enforcer, limiters, heap, madeFor, mu, pc, key, lim, ret,
                 req, claims, resp, trace, log, shadow, ncalls>>
  /\ UNCHANGED <<oidcVars, pureVars, passed, lastReset, wake>>

\* An idle time in which a bucket fills and one more token would be made.
LongIdle == BucketCap + TicksPerToken

\* The callers sleep for d ticks while no call is in flight.
Sleep(d) ==
  /\ \A t \in Threads : pc[t] = "idle"
  /\ now + d <= LongIdle
  /\ now' = now + d
  /\ UNCHANGED <<enforcer, limiters, heap, madeFor, mu, pc, key, lim, ret,
                 req, claims, resp, trace, log, shadow, ncalls>>
  /\ UNCHANGED <<oidcVars, pureVars, passed, lastReset, wake>>

\* --------------------------------------------------------------- handler
NoAccessToken == [iss |-> "", sub |-> "", aud |-> "", iat |-> 0, exp |-> 0,
                  repo |-> "", ref |-> ""]
NoClaims == [err |-> TRUE, repository |-> "", ref |-> ""]

\* respondError that never writes the status header (the default 200 goes out).
respondError_NoStatus(status, errorCode, message) ==
  [status |-> StatusOK, error |-> errorCode, message |-> message,
   access_token |-> NoAccessToken, repository |-> ""]

\* Server.respondError
respondError(status, errorCode, message) ==
  [status |-> status, error |-> errorCode, message |-> message,
   access_token |-> NoAccessToken, repository |-> ""]

\* Server.respondJSON of the AuthResponse
respondJSON(status, accessToken, c) ==
  [status |-> status, error |-> "", message |-> "",
   access_token |-> accessToken, repository |-> c.repository]

Stage(name, ok) == [stage |-> name, ok |-> ok]

\* The handler without its check for an empty oidc_token.
handleParse_NoEmptyCheck(body) ==
  IF ~body.json
    THEN [resp |-> <<respondError(StatusBadRequest, "invalid_request",
                                  "invalid JSON in request body")>>,
          proceed |-> FALSE]
    ELSE [resp |-> <<>>, proceed |-> TRUE]

\* Server.handleGitHubOIDC up to its call of Verify: decode the body,
\* require oidc_token.
handleParse(body) ==
  IF ~body.json
    THEN [resp |-> <<respondError(StatusBadRequest, "invalid_request",
                                  "invalid JSON in request body")>>,
          proceed |-> FALSE]
  ELSE IF body.oidc_token = EmptyToken
    THEN [resp |-> <<respondError(StatusBadRequest, "invalid_request",
                                  "missing oidc_token field")>>,
          proceed |-> FALSE]
  ELSE [resp |-> <<>>, proceed |-> TRUE]

\* Server.handleGitHubOIDC on what Mint returned: internal_error, or the
\* AuthResponse.
respondMint(m, c) ==
  IF m.err
    THEN [resp |-> <<respondError(StatusInternalServerError, "internal_error",
                                  "failed to create access token")>>,
          trace |-> <<Stage("Mint", FALSE)>>]
    ELSE [resp |-> <<respondJSON(StatusOK, m.token, c)>>,
          trace |-> <<Stage("Mint", TRUE)>>]

\* The rest of the handler once the limiter has allowed the request.
handlePolicyMint(e, c, t) ==
  LET p == Evaluate(e, c.repository, c.ref) IN
    IF p.err
      THEN [resp |-> <<respondError(StatusForbidden, "policy_violation", p.reason)>>,
            trace |-> <<Stage("Evaluate", FALSE)>>]
      ELSE LET r == respondMint(Mint(c, t), c) IN
           [resp |-> r.resp, trace |-> <<Stage("Evaluate", TRUE)>> \o r.trace]

\* The handler answering rate_limited without returning.
handleAfterAllow_NoReturn(e, c, allowed, t) ==
  LET rest == handlePolicyMint(e, c, t) IN
  IF ~allowed
    THEN [resp |-> <<respondError(StatusTooManyRequests, "rate_limited",
                                  "rate limit exceeded for repository")>> \o rest.resp,
          trace |-> <<Stage("Allow", FALSE)>> \o rest.trace]
    ELSE [resp |-> rest.resp, trace |-> <<Stage("Allow", TRUE)>> \o rest.trace]

\* The handler calling Allow and not looking at its answer.
handleAfterAllow_IgnoreLimiter(e, c, allowed, t) ==
  LET rest == handlePolicyMint(e, c, t) IN
  [resp |-> rest.resp, trace |-> <<Stage("Allow", allowed)>> \o rest.trace]

\* Server.handleGitHubOIDC from the return of limiter.Allow: the rate-limit
\* answer, the policy check, the mint and the response.
handleAfterAllow(e, c, allowed, t) ==
  IF ~allowed
    THEN [resp |-> <<respondError(StatusTooManyRequests, "rate_limited",
                                  "rate limit exceeded for repository")>>,
          trace |-> <<Stage("Allow", FALSE)>>]
    ELSE LET rest == handlePolicyMint(e, c, t) IN
         [resp |-> rest.resp, trace |-> <<Stage("Allow", TRUE)>> \o rest.trace]

\* limiter.Allow has returned: the handler runs to its response.
HandleAllowed(t) ==
  /\ pc[t] = "returned"
  /\ req[t] # NoBody
  /\ LET r == handleAfterAllow(enforcer, claims[t], ret[t], now) IN
       /\ resp' = [resp EXCEPT ![t] = @ \o r.resp]
       /\ trace' = [trace EXCEPT ![t] = @ \o r.trace]
  /\ pc' = [pc EXCEPT ![t] = "done"]
  /\ UNCHANGED <<now, enforcer, limiters, heap, madeFor, mu, key, lim, ret,
                 req, claims, log, shadow, ncalls>>
  /\ UNCHANGED <<oidcVars, pureVars, passed, lastReset, wake>>

\* ------------------------------------------------------------- key cache
\* What the provider's JWKS endpoint can answer to one GET.  A JWKS document
\* is a sequence of entries; n is the key material, "!" when its base64 does
\* not decode.
DocA == <<[kid |-> "kid1", kty |-> "RSA", n |-> "A1"],
          [kid |-> "kid2", kty |-> "EC", n |-> "A2"]>>
DocB == <<[kid |-> "kid1", kty |-> "RSA", n |-> "B0"],
          [kid |-> "kid1", kty |-> "RSA", n |-> "B1"],
          [kid |-> "kid2", kty |-> "RSA", n |-> "B2"]>>
DocC == <<[kid |-> "kid2", kty |-> "RSA", n |-> "!"],
          [kid |-> "kid1", kty |-> "oct", n |-> "C1"]>>
Docs == {DocA, DocB, DocC}
HttpResponse(transport, status, readable, json, doc) ==
  [transport |-> transport, status |-> status, readable |-> readable,
   json |-> json, doc |-> doc]
Responses ==
  {HttpResponse(FALSE, 0, FALSE, FALSE, <<>>),
   HttpResponse(TRUE, StatusInternalServerError, TRUE, TRUE, DocB),
   HttpResponse(TRUE, StatusOK, FALSE, TRUE, DocB),
   HttpResponse(TRUE, StatusOK, TRUE, FALSE, <<>>)}
  \cup {HttpResponse(TRUE, StatusOK, TRUE, TRUE, d) : d \in Docs}
NoResponse == HttpResponse(FALSE, 0, FALSE, FALSE, <<>>)
\* The answers the provider gives while the verifier is exercised.
SomeResponses ==
  {HttpResponse(TRUE, StatusInternalServerError, TRUE, TRUE, DocB),
   HttpResponse(TRUE, StatusOK, TRUE, TRUE, DocA)}

\* A nil *rsa.PublicKey.
NoKey == ""

\* NewJWKSCache: make(map[string]*rsa.PublicKey), no entry for any kid.
NoKeys == [k \in Kids |-> NoKey]

\* parseRSAPublicKey: fails when n (or e) is not base64url.
parseRSAPublicKey(n) == [err |-> n = "!", key |-> n]

\* The loop over jwks.Keys without the test of the key type.
RECURSIVE ParseKeys_AnyType(_, _)
ParseKeys_AnyType(doc, acc) ==
  IF doc = <<>> THEN acc
  ELSE LET e == Head(doc) IN
    IF parseRSAPublicKey(e.n).err
      THEN ParseKeys_AnyType(Tail(doc), acc)
      ELSE ParseKeys_AnyType(Tail(doc), [acc EXCEPT ![e.kid] = parseRSAPublicKey(e.n).key])

\* fetchJWKS, the loop over jwks.Keys: entries that are not RSA or do not
\* parse are skipped; a later entry for a kid replaces an earlier one.
RECURSIVE ParseKeys(_, _)
ParseKeys(doc, acc) ==
  IF doc = <<>> THEN acc
  ELSE LET e == Head(doc) IN
    IF e.kty # "RSA" \/ parseRSAPublicKey(e.n).err
      THEN ParseKeys(Tail(doc), acc)
      ELSE ParseKeys(Tail(doc), [acc EXCEPT ![e.kid] = parseRSAPublicKey(e.n).key])

\* fetchJWKS filling the cache's current map instead of a new one.
fetchJWKS_ReuseMap(ks, response) ==
  IF ~response.transport \/ response.status # StatusOK
     \/ ~response.readable \/ ~response.json
    THEN [err |-> TRUE, newKeys |-> NoKeys]
    ELSE [err |-> FALSE, newKeys |-> ParseKeys(response.doc, ks)]

\* fetchJWKS that does not look at the status code.
fetchJWKS_AnyStatus(ks, response) ==
  IF ~response.transport \/ ~response.readable \/ ~response.json
    THEN [err |-> TRUE, newKeys |-> NoKeys]
    ELSE [err |-> FALSE, newKeys |-> ParseKeys(response.doc, NoKeys)]

\* JWKSCache.fetchJWKS up to its two assignments: the error, or the new map.
\* ks is c.keys, which the method can reach and does not use.
fetchJWKS(ks, response) ==
  IF ~response.transport \/ response.status # StatusOK
     \/ ~response.readable \/ ~response.json
    THEN [err |-> TRUE, newKeys |-> NoKeys]
    ELSE [err |-> FALSE, newKeys |-> ParseKeys(response.doc, NoKeys)]

\* The cache test without the age of the set.
cacheLookup_NoTTL(ks, f, k, t) ==
  IF ks[k] # NoKey
    THEN [hit |-> TRUE, key |-> ks[k]]
    ELSE [hit |-> FALSE, key |-> NoKey]

\* The cache test with the comparison the wrong way round.
cacheLookup_Reversed(ks, f, k, t) ==
  IF ks[k] # NoKey /\ ~(f # ZeroTime /\ t - f < JwksTTL)
    THEN [hit |-> TRUE, key |-> ks[k]]
    ELSE [hit |-> FALSE, key |-> NoKey]

\* GetKey's test `exists && time.Since(c.fetchedAt) < c.ttl` at time t.
cacheLookup(ks, f, k, t) ==
  IF ks[k] # NoKey /\ f # ZeroTime /\ t - f < JwksTTL
    THEN [hit |-> TRUE, key |-> ks[k]]
    ELSE [hit |-> FALSE, key |-> NoKey]

KeyResult(pk, err) == [key |-> pk, err |-> err]
NoKeyResult == KeyResult(NoKey, "")

\* GetKey under the write lock without the second look at the cache.
getKeyLocked_NoRecheck(ks, f, k, t) == [hit |-> FALSE, key |-> NoKey]

\* JWKSCache.GetKey under the write lock: the double check that decides
\* whether to fetch.
getKeyLocked(ks, f, k, t) == cacheLookup(ks, f, k, t)

\* GetKey going back to fetch when the kid is still missing.
getKeyAfterFetch_Retry(ks, k) ==
  IF ks[k] = NoKey
    THEN [pc |-> "klocked", result |-> NoKeyResult]
    ELSE [pc |-> "kreturned", result |-> KeyResult(ks[k], "")]

\* JWKSCache.GetKey after a successful fetch: the key, or not found; either
\* way the call returns.
getKeyAfterFetch(ks, k) ==
  IF ks[k] = NoKey
    THEN [pc |-> "kreturned", result |-> KeyResult(NoKey, "not found")]
    ELSE [pc |-> "kreturned", result |-> KeyResult(ks[k], "")]

\* -------------------------------------------------------- GitHubVerifier
\* types.VerifiedClaims; times are whole seconds, ZeroTime the zero time.
VerifiedClaims(repository, ref, actor, runID, workflow, iat, exp) ==
  [Repository |-> repository, Ref |-> ref, Actor |-> actor, RunID |-> runID,
   Workflow |-> workflow, IssuedAt |-> iat, ExpiresAt |-> exp]
NoVerifiedClaims == VerifiedClaims("", "", "", "", "", ZeroTime, ZeroTime)

\* What Verify returns: nil and an error, or the claims and no error.
VerifyFailure(err) == [err |-> err, claims |-> NoVerifiedClaims]
VerifySuccess(c) == [err |-> "", claims |-> c]

\* golang-jwt: the algorithms with a registered signing method, and those
\* whose method is a *jwt.SigningMethodRSA.
RegisteredAlgs == {"RS256", "RS384", "RS512", "PS256", "PS384", "PS512",
                   "HS256", "HS384", "HS512", "ES256", "ES384", "ES512",
                   "EdDSA", "none"}
RSAAlgs == {"RS256", "RS384", "RS512"}

\* The key function without its check of the signing method.
parseHeader_AnyMethod(tok) ==
  IF ~tok.wellFormed THEN [err |-> "token is malformed", kid |-> ""]
  ELSE IF tok.alg \notin RegisteredAlgs
    THEN [err |-> "signing method (alg) is unavailable", kid |-> ""]
  ELSE IF ~tok.hasKid
    THEN [err |-> "missing or invalid kid in token header", kid |-> ""]
  ELSE [err |-> "", kid |-> tok.kid]

\* Verify up to its call of GetKey: jwt.Parse decodes the token and finds the
\* method of its alg, then the key function checks the method and reads kid.
parseHeader(tok) ==
  IF ~tok.wellFormed THEN [err |-> "token is malformed", kid |-> ""]
  ELSE IF tok.alg \notin RegisteredAlgs
    THEN [err |-> "signing method (alg) is unavailable", kid |-> ""]
  ELSE IF tok.alg \notin RSAAlgs
    THEN [err |-> "unexpected signing method", kid |-> ""]
  ELSE IF ~tok.hasKid
    THEN [err |-> "missing or invalid kid in token header", kid |-> ""]
  ELSE [err |-> "", kid |-> tok.kid]

\* golang-jwt, MapClaims.parseNumericDate: a missing claim and the number 0
\* are no date, a number is a date cut to whole seconds, any other value is
\* an error.
parseNumericDate(v) ==
  IF v.type = "absent" \/ (v.type = "number" /\ v.whole = 0 /\ v.tenths = 0)
    THEN [err |-> FALSE, present |-> FALSE, secs |-> 0]
  ELSE IF v.type = "number" THEN [err |-> FALSE, present |-> TRUE, secs |-> v.whole]
  ELSE [err |-> TRUE, present |-> FALSE, secs |-> 0]

\* jwt.Parse after the key function: the claims validator with leeway
\* ClockSkew at time t, in whole seconds.  exp and nbf are checked when
\* they are dates.
validateWindow(p, t) ==
  LET exp == parseNumericDate(p.exp)
      nbf == parseNumericDate(p.nbf)
  IN IF exp.err \/ nbf.err THEN "invalid type for claim"
     ELSE IF exp.present /\ ~(t < exp.secs + ClockSkew) THEN "token is expired"
     ELSE IF nbf.present /\ ~(t >= nbf.secs - ClockSkew) THEN "token is not valid yet"
     ELSE ""

\* GitHubVerifier.extractAudience
RECURSIVE Strings(_)
Strings(l) ==
  IF l = <<>> THEN <<>>
  ELSE IF Head(l).type = "string" THEN <<Head(l).s>> \o Strings(Tail(l))
  ELSE Strings(Tail(l))
\* extractAudience that reads an audience of another type as no audiences.
extractAudience_NoTypeError(p) ==
  IF p.aud.type = "string" THEN [err |-> FALSE, aud |-> <<p.aud.s>>]
  ELSE IF p.aud.type = "array" THEN [err |-> FALSE, aud |-> Strings(p.aud.list)]
  ELSE [err |-> FALSE, aud |-> <<>>]
extractAudience(p) ==
  IF p.aud.type = "string" THEN [err |-> FALSE, aud |-> <<p.aud.s>>]
  ELSE IF p.aud.type = "array" THEN [err |-> FALSE, aud |-> Strings(p.aud.list)]
  ELSE [err |-> TRUE, aud |-> <<>>]

\* GitHubVerifier.containsAudience
containsAudience(audiences, expected) ==
  \E i \in 1..Len(audiences) : audiences[i] = expected

\* strconv of a non-negative integer.
Digit(d) == CASE d = 0 -> "0" [] d = 1 -> "1" [] d = 2 -> "2" [] d = 3 -> "3"
              [] d = 4 -> "4" [] d = 5 -> "5" [] d = 6 -> "6" [] d = 7 -> "7"
              [] d = 8 -> "8" [] d = 9 -> "9"
RECURSIVE ToDecimal(_)
ToDecimal(n) == IF n < 10 THEN Digit(n) ELSE ToDecimal(n \div 10) \o Digit(n % 10)

\* fmt.Sprintf("%.0f", w + d/10): rounds to the nearest integer, a half to
\* the even one.
Sprintf0f(w, d) ==
  ToDecimal(IF d < 5 THEN w
            ELSE IF d > 5 THEN w + 1
            ELSE IF w % 2 = 0 THEN w ELSE w + 1)

\* extractRunID that only knows string run ids.
extractRunID_StringOnly(p) ==
  IF p.run_id.type = "string" THEN p.run_id.s ELSE ""

\* GitHubVerifier.extractRunID
extractRunID(p) ==
  IF p.run_id.type = "string" THEN p.run_id.s
  ELSE IF p.run_id.type = "number" THEN Sprintf0f(p.run_id.whole, p.run_id.tenths)
  ELSE ""

\* GitHubVerifier.extractTimestamp
extractTimestamp(v) == IF v.type = "number" THEN v.whole ELSE ZeroTime

\* Verify's choice of the workflow reference.
extractWorkflow(p) ==
  IF p.workflow_ref.type = "string" THEN p.workflow_ref.s
  ELSE IF p.job_workflow_ref.type = "string" THEN p.job_workflow_ref.s
  ELSE ""

\* Verify's extraction accepting an empty actor.
extractClaims_AnyActor(p) ==
  IF p.iss.type # "string" \/ p.iss.s # Issuer THEN VerifyFailure("invalid issuer")
  ELSE IF extractAudience(p).err THEN VerifyFailure("invalid audience")
  ELSE IF ~containsAudience(extractAudience(p).aud, Audience)
    THEN VerifyFailure("audience does not match")
  ELSE IF p.repository.type # "string" \/ p.repository.s = ""
    THEN VerifyFailure("missing or invalid repository claim")
  ELSE IF p.ref.type # "string" \/ p.ref.s = ""
    THEN VerifyFailure("missing or invalid ref claim")
  ELSE IF extractRunID(p) = "" THEN VerifyFailure("missing or invalid run_id claim")
  ELSE IF extractWorkflow(p) = ""
    THEN VerifyFailure("missing workflow_ref or job_workflow_ref claim")
  ELSE VerifySuccess(VerifiedClaims(p.repository.s, p.ref.s, p.actor.s,
                                    extractRunID(p), extractWorkflow(p),
                                    extractTimestamp(p.iat),
                                    extractTimestamp(p.exp)))

\* Verify once the token is valid: issuer, audience, the required claims, and
\* the record returned.
extractClaims(p) ==
  IF p.iss.type # "string" \/ p.iss.s # Issuer THEN VerifyFailure("invalid issuer")
  ELSE IF extractAudience(p).err THEN VerifyFailure("invalid audience")
  ELSE IF ~containsAudience(extractAudience(p).aud, Audience)
    THEN VerifyFailure("audience does not match")
  ELSE IF p.repository.type # "string" \/ p.repository.s = ""
    THEN VerifyFailure("missing or invalid repository claim")
  ELSE IF p.ref.type # "string" \/ p.ref.s = ""
    THEN VerifyFailure("missing or invalid ref claim")
  ELSE IF p.actor.type # "string" \/ p.actor.s = ""
    THEN VerifyFailure("missing or invalid actor claim")
  ELSE IF extractRunID(p) = "" THEN VerifyFailure("missing or invalid run_id claim")
  ELSE IF extractWorkflow(p) = ""
    THEN VerifyFailure("missing workflow_ref or job_workflow_ref claim")
  ELSE VerifySuccess(VerifiedClaims(p.repository.s, p.ref.s, p.actor.s,
                                    extractRunID(p), extractWorkflow(p),
                                    extractTimestamp(p.iat),
                                    extractTimestamp(p.exp)))

\* Verify from the return of GetKey, at time t: the key function's error,
\* the signature check and the claims validator of jwt.Parse, then the
\* extraction.
verifyWithKey(tok, keyResult, t) ==
  IF keyResult.err # "" THEN VerifyFailure("failed to get public key")
  ELSE IF tok.sig # keyResult.key THEN VerifyFailure("signature is invalid")
  ELSE IF validateWindow(tok.payload, t) # ""
    THEN VerifyFailure(validateWindow(tok.payload, t))
  ELSE extractClaims(tok.payload)

\* GitHubVerifier.Verify of token tok at time t, keyResult being what GetKey
\* returns when Verify calls it.
Verify(tok, keyResult, t) ==
  IF parseHeader(tok).err # "" THEN VerifyFailure(parseHeader(tok).err)
  ELSE verifyWithKey(tok, keyResult, t)

\* ------------------------------------------------ minter, the tokens
\* The minter's clock counts ticks of 1/TicksPerSecond of a second.
\* time.Time.Unix: the whole seconds of a time.
Unix(t) == t \div TicksPerSecond

\* NewMinter with a secret and a TTL, any time.Duration up to TokenTTL
\* seconds, held in ticks: config.Load builds whole seconds, a caller of
\* NewMinter any duration.
Secrets == {"secret", "other-secret"}
Minter(secret, ttl) == [secret |-> secret, ttl |-> ttl]
Minters == {Minter(x, d) : x \in Secrets, d \in 0..(TokenTTL * TicksPerSecond)}
NoMinter == Minter("", 0)

\* uuid.New().String()
Jtis == {"uuid-1", "uuid-2"}

\* A signed token: its header's alg, the secret its signature was made with
\* and its claims as JSON values.
AccessToken(wellFormed, alg, sig, payload) ==
  [wellFormed |-> wellFormed, alg |-> alg, sig |-> sig, payload |-> payload]
AccessClaims(iss, sub, aud, iat, exp, nbf, jti, repo, ref, actor, runID, scopes) ==
  [iss |-> iss, sub |-> sub, aud |-> aud, iat |-> iat, exp |-> exp, nbf |-> nbf,
   jti |-> jti, repo |-> repo, ref |-> ref, actor |-> actor, run_id |-> runID,
   scopes |-> scopes]
NoAccessClaims ==
  AccessClaims(Absent, Absent, Absent, Absent, Absent, Absent, Absent, Absent,
               Absent, Absent, Absent, Absent)
NoSignedToken == AccessToken(FALSE, "", "", NoAccessClaims)

\* Mint copying the assertion's expires-at into the token.
MintClaims_CopyExpiry(m, c, t, jti) ==
  AccessClaims(Str("robohub-auth"), Str("repo:" \o c.Repository),
               Str("robohub-api"), Num(Unix(t), 0), Num(c.ExpiresAt, 0), Absent,
               Str(jti), Str(c.Repository), Str(c.Ref), Str(c.Actor),
               Str(c.RunID), Arr(<<Str("ingest:build")>>))

\* Mint leaving the actor out of the token.
MintClaims_NoActor(m, c, t, jti) ==
  AccessClaims(Str("robohub-auth"), Str("repo:" \o c.Repository),
               Str("robohub-api"), Num(Unix(t), 0), Num(Unix(t + m.ttl), 0), Absent,
               Str(jti), Str(c.Repository), Str(c.Ref), Absent,
               Str(c.RunID), Arr(<<Str("ingest:build")>>))

\* Minter.Mint, the tokenClaims map built at time t: iat is now.Unix() and
\* exp is now.Add(m.ttl).Unix().
MintClaims(m, c, t, jti) ==
  AccessClaims(Str("robohub-auth"), Str("repo:" \o c.Repository),
               Str("robohub-api"), Num(Unix(t), 0), Num(Unix(t + m.ttl), 0), Absent,
               Str(jti), Str(c.Repository), Str(c.Ref), Str(c.Actor),
               Str(c.RunID), Arr(<<Str("ingest:build")>>))

\* What Mint returns: the token, the expiry time and the error.  Signing
\* with HS256 and a []byte secret does not fail.
MintResult(err, tok, exp) == [err |-> err, token |-> tok, exp |-> exp]
PendingMint == MintResult("pending", NoSignedToken, 0)
MinterMint(m, c, t, jti) ==
  MintResult("", AccessToken(TRUE, "HS256", m.secret, MintClaims(m, c, t, jti)),
             t + m.ttl)

\* types.RoboHubClaims; the zero value of the struct.
RoboHubClaims(iss, sub, aud, iat, exp, jti, repo, ref, actor, runID, scopes) ==
  [Issuer |-> iss, Subject |-> sub, Audience |-> aud, IssuedAt |-> iat,
   ExpiresAt |-> exp, JTI |-> jti, Repo |-> repo, Ref |-> ref, Actor |-> actor,
   RunID |-> runID, Scopes |-> scopes]
NoRoboHubClaims == RoboHubClaims("", "", "", 0, 0, "", "", "", "", "", <<>>)

\* golang-jwt: the algorithms whose method is a *jwt.SigningMethodHMAC.
HMACAlgs == {"HS256", "HS384", "HS512"}

\* golang-jwt, the claims validator without leeway at time t: the first of
\* its errors.
validateClaims(p, t) ==
  LET exp == parseNumericDate(p.exp)
      nbf == parseNumericDate(p.nbf)
  IN IF exp.err THEN "exp is invalid"
     ELSE IF exp.present /\ ~(t < exp.secs * TicksPerSecond) THEN "token is expired"
     ELSE IF nbf.err THEN "nbf is invalid"
     ELSE IF nbf.present /\ ~(t >= nbf.secs * TicksPerSecond)
       THEN "token is not valid yet"
     ELSE ""

\* jwt.Parse as Validate calls it: the structure, the registered method, the
\* key function's check of the method, the signature, the claims.
parseAccessToken(m, tok, t) ==
  IF ~tok.wellFormed THEN "token is malformed"
  ELSE IF tok.alg \notin RegisteredAlgs THEN "signing method (alg) is unavailable"
  ELSE IF tok.alg \notin HMACAlgs THEN "unexpected signing method"
  ELSE IF tok.sig # m.secret THEN "signature is invalid"
  ELSE validateClaims(tok.payload, t)

\* claims[k].(string), and int64(claims[k].(float64)), with the zero value
\* when the assertion fails.
stringOrZero(v) == IF v.type = "string" THEN v.s ELSE ""
int64OrZero(v) == IF v.type = "number" THEN v.whole ELSE 0

ValidateResult(err, c) == [err |-> err, claims |-> c]
PendingValidate == ValidateResult("pending", NoRoboHubClaims)

\* Minter.Validate at time t
MinterValidate(m, tok, t) ==
  LET e == parseAccessToken(m, tok, t)
      p == tok.payload
  IN IF e # "" THEN ValidateResult(e, NoRoboHubClaims)
     ELSE ValidateResult("",
            RoboHubClaims(stringOrZero(p.iss), stringOrZero(p.sub),
                          stringOrZero(p.aud), int64OrZero(p.iat),
                          int64OrZero(p.exp), stringOrZero(p.jti),
                          stringOrZero(p.repo), stringOrZero(p.ref),
                          stringOrZero(p.actor), stringOrZero(p.run_id),
                          IF p.scopes.type = "array" THEN Strings(p.scopes.list)
                          ELSE <<>>))

\* The claims handed to Mint: what Verify can return, with several inbound
\* issued-at and expires-at times.
MintInputs ==
  {VerifiedClaims(r, "refs/heads/main", "octocat", "77",
                  "ci.yml@refs/heads/main", i, i + 1) : r \in Repos, i \in {0, 5}}
  \cup {VerifiedClaims("test/repo", "refs/tags/v1", "hubot", "105",
                       "reusable.yml@refs/heads/main", ZeroTime, ZeroTime)}
MintTimes == TicksPerSecond .. (TicksPerSecond * (MaxTime + 1) - 1)

\* The tokens handed to Validate that no Mint made: a well-signed unexpired
\* one, and the ways a token can differ from it.
LateSecond == 2 * MaxTime + 2
GoodAccessClaims ==
  AccessClaims(Str("robohub-auth"), Str("repo:test/repo"), Str("robohub-api"),
               Num(1, 0), Num(LateSecond, 0), Absent, Str("uuid-1"),
               Str("test/repo"), Str("refs/heads/main"), Str("octocat"),
               Str("77"), Arr(<<Str("ingest:build")>>))
AccessPayloads ==
  {GoodAccessClaims}
  \cup {[GoodAccessClaims EXCEPT ![f] = v] :
          f \in {"iss", "sub", "aud", "jti", "repo", "ref", "actor", "run_id"},
          v \in {Absent, Num(7, 0)}}
  \cup {[GoodAccessClaims EXCEPT !.scopes = v] :
          v \in {Absent, Str("ingest:build"), Arr(<<Num(7, 0), Str("read")>>)}}
  \cup {[GoodAccessClaims EXCEPT !.iat = v] :
          v \in {Absent, Str("now"), Num(LateSecond, 0)}}
  \cup {[GoodAccessClaims EXCEPT !.exp = v] :
          v \in {Absent, Str("never"), Num(1, 0), Num(MaxTime, 0)}}
  \cup {[GoodAccessClaims EXCEPT !.nbf = v] :
          v \in {Str("now"), Num(1, 0), Num(LateSecond, 0)}}
AccessTokens ==
  {AccessToken(TRUE, "HS256", "secret", p) : p \in AccessPayloads}
  \cup {AccessToken(TRUE, a, x, GoodAccessClaims) :
          a \in {"HS256", "HS384", "RS256", "none", "XX"},
          x \in Secrets \cup {"forged"}}
  \cup {AccessToken(FALSE, "HS256", "secret", GoodAccessClaims),
        AccessToken(TRUE, "RS256", "secret",
                    [GoodAccessClaims EXCEPT !.exp = Num(1, 0)])}
ValidateTimes == TicksPerSecond .. (TicksPerSecond * (MaxTime + 1))

\* A Mint call and a Validate call, with their inputs and results.
MintCall(m, c, t, result) == [minter |-> m, claims |-> c, at |-> t, result |-> result]
NoMintCall == MintCall(NoMinter, NoVerifiedClaims, 0, MintResult("none", NoSignedToken, 0))
ValidateCall(m, tok, t, ofMint, result) ==
  [minter |-> m, token |-> tok, at |-> t, ofMint |-> ofMint, result |-> result]
NoValidateCall ==
  ValidateCall(NoMinter, NoSignedToken, 0, FALSE, ValidateResult("none", NoRoboHubClaims))

\* Mint applied to its claims at its time.
ApplyMint(jti) ==
  /\ minted.result = PendingMint
  /\ minted' = [minted EXCEPT
                  !.result = MinterMint(minted.minter, minted.claims, minted.at, jti)]
  /\ UNCHANGED <<now, pc, ncalls, serverVars, oidcVars, decision, validated>>

\* The token Mint returned is handed, d ticks later, to a minter of the same
\* TTL holding secret x.
PresentMinted(x, d) ==
  /\ minted # NoMintCall /\ minted.result # PendingMint
  /\ validated = NoValidateCall
  /\ validated' = ValidateCall(Minter(x, minted.minter.ttl), minted.result.token,
                               minted.at + d, TRUE, PendingValidate)
  /\ UNCHANGED <<now, pc, ncalls, serverVars, oidcVars, decision, minted>>

\* Validate applied to its token at its time.
ApplyValidate ==
  /\ validated.result = PendingValidate
  /\ validated' = [validated EXCEPT
                     !.result = MinterValidate(validated.minter, validated.token,
                                               validated.at)]
  /\ UNCHANGED <<now, pc, ncalls, serverVars, oidcVars, decision, minted>>

\* ------------------------------------------------- key cache, the steps
\* A goroutine calls JWKSCache.GetKey(k) directly.
CallGetKey(t, k) ==
  /\ pc[t] = "idle"
  /\ ncalls < MaxCalls
  /\ \A u \in Threads : u < t => (pc[u] # "idle" \/ ncalls > 0)
  /\ ncalls' = ncalls + 1
  /\ kid' = [kid EXCEPT ![t] = k]
  /\ publicKey' = [publicKey EXCEPT ![t] = NoKeyResult]
  /\ fetched' = [fetched EXCEPT ![t] = 0]
  /\ pc' = [pc EXCEPT ![t] = "krlock"]
  /\ UNCHANGED <<now, serverVars, pureVars, keys, fetchedAt, jwksMu, httpResp, newKeys,
                 tokenString, verified, fetches, lastCommit>>

\* GetKey, the read-locked lookup: return the cached key, or go for the
\* write lock.
GetKeyRead(t) ==
  /\ pc[t] = "krlock"
  /\ jwksMu = Nil
  /\ LET look == cacheLookup(keys, fetchedAt, kid[t], now) IN
       IF look.hit
         THEN /\ publicKey' = [publicKey EXCEPT ![t] = KeyResult(look.key, "")]
              /\ pc' = [pc EXCEPT ![t] = "kreturned"]
         ELSE /\ pc' = [pc EXCEPT ![t] = "kwlock"]
              /\ UNCHANGED publicKey
  /\ UNCHANGED <<now, ncalls, serverVars, pureVars, keys, fetchedAt, jwksMu, kid,
                 httpResp, newKeys, tokenString, verified, fetches, fetched,
                 lastCommit>>

\* GetKey: c.mu.Lock()
GetKeyLock(t) ==
  /\ pc[t] = "kwlock"
  /\ jwksMu = Nil
  /\ jwksMu' = t
  /\ pc' = [pc EXCEPT ![t] = "klocked"]
  /\ UNCHANGED <<now, ncalls, serverVars, pureVars, keys, fetchedAt, kid, httpResp,
                 newKeys, publicKey, tokenString, verified, fetches, fetched,
                 lastCommit>>

\* GetKey under the write lock: the double check.  A hit returns (the
\* deferred Unlock runs); a miss sends the GET to the provider.
GetKeyCheck(t) ==
  /\ pc[t] = "klocked"
  /\ jwksMu = t
  /\ LET look == getKeyLocked(keys, fetchedAt, kid[t], now) IN
       IF look.hit
         THEN /\ publicKey' = [publicKey EXCEPT ![t] = KeyResult(look.key, "")]
              /\ jwksMu' = Nil
              /\ pc' = [pc EXCEPT ![t] = "kreturned"]
              /\ UNCHANGED <<fetches, fetched>>
         ELSE /\ fetches' = fetches + 1
              /\ fetched' = [fetched EXCEPT ![t] = @ + 1]
              /\ pc' = [pc EXCEPT ![t] = "kfetching"]
              /\ UNCHANGED <<publicKey, jwksMu>>
  /\ UNCHANGED <<now, ncalls, serverVars, pureVars, keys, fetchedAt, kid, httpResp,
                 newKeys, tokenString, verified, lastCommit>>

\* fetchJWKS: the provider answers with `response` (or the client gives up).
\* A failed fetch makes GetKey return its error; a successful one goes on to
\* store the new map.
FetchResponse(t, response) ==
  /\ pc[t] = "kfetching"
  /\ jwksMu = t
  /\ httpResp' = [httpResp EXCEPT ![t] = response]
  /\ LET r == fetchJWKS(keys, response) IN
       IF r.err
         THEN /\ publicKey' = [publicKey EXCEPT ![t] =
                                 KeyResult(NoKey, "failed to fetch JWKS")]
              /\ jwksMu' = Nil
              /\ pc' = [pc EXCEPT ![t] = "kreturned"]
              /\ UNCHANGED newKeys
         ELSE /\ newKeys' = [newKeys EXCEPT ![t] = r.newKeys]
              /\ pc' = [pc EXCEPT ![t] = "kfetched"]
              /\ UNCHANGED <<publicKey, jwksMu>>
  /\ UNCHANGED <<now, ncalls, serverVars, pureVars, keys, fetchedAt, kid, tokenString,
                 verified, fetches, fetched, lastCommit>>

\* fetchJWKS: c.keys = newKeys
FetchStoreKeys(t) ==
  /\ pc[t] = "kfetched"
  /\ jwksMu = t
  /\ keys' = newKeys[t]
  /\ pc' = [pc EXCEPT ![t] = "kstored"]
  /\ UNCHANGED <<now, ncalls, serverVars, pureVars, fetchedAt, jwksMu, kid, httpResp,
                 newKeys, publicKey, tokenString, verified, fetches, fetched,
                 lastCommit>>

\* fetchJWKS: c.fetchedAt = time.Now(); then GetKey looks the kid up in the
\* new map and returns (the deferred Unlock runs).
FetchStoreTime(t) ==
  /\ pc[t] = "kstored"
  /\ jwksMu = t
  /\ fetchedAt' = now
  /\ lastCommit' = [keys |-> ParseKeys(httpResp[t].doc, NoKeys), fetchedAt |-> now]
  /\ LET r == getKeyAfterFetch(keys, kid[t]) IN
       /\ publicKey' = [publicKey EXCEPT ![t] = r.result]
       /\ pc' = [pc EXCEPT ![t] = r.pc]
       /\ jwksMu' = IF r.pc = "kreturned" THEN Nil ELSE jwksMu
  /\ newKeys' = [newKeys EXCEPT ![t] = NoKeys]
  /\ UNCHANGED <<now, ncalls, serverVars, pureVars, keys, kid, httpResp, tokenString,
                 verified, fetches, fetched>>

\* The direct call returns to its caller; its locals are gone.
GetKeyReturn(t) ==
  /\ pc[t] = "kreturned"
  /\ tokenString[t] = NoJWT
  /\ kid' = [kid EXCEPT ![t] = ""]
  /\ httpResp' = [httpResp EXCEPT ![t] = NoResponse]
  /\ publicKey' = [publicKey EXCEPT ![t] = NoKeyResult]
  /\ fetched' = [fetched EXCEPT ![t] = 0]
  /\ pc' = [pc EXCEPT ![t] = "idle"]
  /\ UNCHANGED <<now, ncalls, serverVars, pureVars, keys, fetchedAt, jwksMu,
                 newKeys, tokenString, verified, fetches, lastCommit>>

\* ---------------------------------------------------- verifier, the steps
\* What GetKey can return to Verify.
KeyResults ==
  {KeyResult(m, "") : m \in {"A1", "B1", "B2"}}
  \cup {KeyResult(NoKey, "failed to fetch JWKS"), KeyResult(NoKey, "not found")}

\* The record of a Verify call: the token, what GetKey returned to it, the
\* fetches it made, the time it finished and its result.
VerifyCall(tok, keyResult, n, t, result) ==
  [token |-> tok, key |-> keyResult, fetched |-> n, at |-> t, result |-> result]
NoVerifyCall == VerifyCall(NoJWT, NoKeyResult, 0, 0, VerifyFailure("none"))
Pending == VerifyFailure("pending")

\* A goroutine calls Verify with a token whose header is h: the call ends
\* here, or goes on to GetKey.  Goroutines are interchangeable, so they take
\* their calls in order.
CallVerify(t, h) ==
  /\ pc[t] = "idle"
  /\ \A u \in Threads : u < t => pc[u] # "idle"
  /\ LET r == parseHeader(h) IN
       IF r.err # ""
         THEN /\ verified' = [verified EXCEPT ![t] =
                                VerifyCall(h, NoKeyResult, 0, now, VerifyFailure(r.err))]
              /\ pc' = [pc EXCEPT ![t] = "vreturned"]
              /\ UNCHANGED <<tokenString, kid>>
         ELSE /\ tokenString' = [tokenString EXCEPT ![t] = h]
              /\ kid' = [kid EXCEPT ![t] = r.kid]
              /\ pc' = [pc EXCEPT ![t] = "krlock"]
              /\ UNCHANGED verified
  /\ UNCHANGED <<now, ncalls, serverVars, pureVars, keys, fetchedAt, jwksMu,
                 httpResp, newKeys, publicKey, fetches, fetched, lastCommit>>

\* GetKey has returned to Verify, which reads the rest of the token (its
\* signature and payload) and runs to its return.
VerifyFinish(t, rest) ==
  /\ pc[t] = "kreturned"
  /\ tokenString[t] # NoJWT
  /\ LET tok == [tokenString[t] EXCEPT !.sig = rest.sig, !.payload = rest.payload] IN
       verified' = [verified EXCEPT ![t] =
                      VerifyCall(tok, publicKey[t], fetched[t], now,
                                 verifyWithKey(tok, publicKey[t], now))]
  /\ tokenString' = [tokenString EXCEPT ![t] = NoJWT]
  /\ kid' = [kid EXCEPT ![t] = ""]
  /\ httpResp' = [httpResp EXCEPT ![t] = NoResponse]
  /\ publicKey' = [publicKey EXCEPT ![t] = NoKeyResult]
  /\ fetched' = [fetched EXCEPT ![t] = 0]
  /\ pc' = [pc EXCEPT ![t] = "vreturned"]
  /\ UNCHANGED <<now, ncalls, serverVars, pureVars, keys, fetchedAt, jwksMu,
                 newKeys, fetches, lastCommit>>

\* Verify's caller takes the result and ends.
VerifyReturn(t) ==
  /\ pc[t] = "vreturned"
  /\ verified' = [verified EXCEPT ![t] = NoVerifyCall]
  /\ pc' = [pc EXCEPT ![t] = "done"]
  /\ UNCHANGED <<now, ncalls, serverVars, pureVars, keys, fetchedAt, jwksMu, kid,
                 httpResp, newKeys, publicKey, tokenString, fetches, fetched,
                 lastCommit>>

\* Verify applied to one token, with a given answer of GetKey.
ApplyVerify(t) ==
  /\ verified[t].result = Pending
  /\ verified' = [verified EXCEPT
                    ![t].result = Verify(verified[t].token, verified[t].key,
                                         verified[t].at)]
  /\ UNCHANGED <<now, pc, ncalls, serverVars, pureVars, keys, fetchedAt, jwksMu,
                 kid, httpResp, newKeys, publicKey, tokenString, fetches,
                 fetched, lastCommit>>

\* The handler putting Verify's error into its answer.
respondVerify_LeakCause(v) ==
  IF v.err # ""
    THEN [resp |-> <<respondError(StatusUnauthorized, "invalid_token", v.err)>>,
          trace |-> <<Stage("Verify", FALSE)>>, proceed |-> FALSE]
    ELSE [resp |-> <<>>, trace |-> <<Stage("Verify", TRUE)>>, proceed |-> TRUE]

\* Server.handleGitHubOIDC on what Verify returned: invalid_token for any
\* error, or go on to the limiter.
respondVerify(v) ==
  IF v.err # ""
    THEN [resp |-> <<respondError(StatusUnauthorized, "invalid_token",
                                  "failed to verify OIDC token")>>,
          trace |-> <<Stage("Verify", FALSE)>>, proceed |-> FALSE]
    ELSE [resp |-> <<>>, trace |-> <<Stage("Verify", TRUE)>>, proceed |-> TRUE]

\* The handler takes the result of the Verify call it made.
RespondVerify(t) ==
  /\ verified[t] # NoVerifyCall /\ verified[t].result # Pending
  /\ trace[t] = <<>>
  /\ LET r == respondVerify(verified[t].result) IN
       /\ resp' = [resp EXCEPT ![t] = r.resp]
       /\ trace' = [trace EXCEPT ![t] = r.trace]
       /\ pc' = [pc EXCEPT ![t] = IF r.proceed THEN pc[t] ELSE "done"]
  /\ UNCHANGED <<now, enforcer, limiters, heap, madeFor, mu, key, lim, ret,
                 req, claims, log, shadow, ncalls>>
  /\ UNCHANGED <<oidcVars, pureVars, passed, lastReset, wake>>

\* The handler dropping Verify's error and going on with what the token says.
handleVerify_IgnoreVerifyError(tok, v) ==
  [resp |-> <<>>, trace |-> <<Stage("Verify", v.err = "")>>, proceed |-> TRUE,
   claims |-> [err |-> v.err # "", repository |-> tok.payload.repository.s,
               ref |-> tok.payload.ref.s]]

\* Server.handleGitHubOIDC from the return of Verify to its call of
\* limiter.Allow: the answer to an error, or the claims the rest of the
\* handler reads, their repository and ref.
handleVerify(tok, v) ==
  LET r == respondVerify(v) IN
    [resp |-> r.resp, trace |-> r.trace, proceed |-> r.proceed,
     claims |-> IF r.proceed
                  THEN [err |-> FALSE, repository |-> v.claims.Repository,
                        ref |-> v.claims.Ref]
                  ELSE NoClaims]

\* A request arrives: the handler decodes the body and calls Verify, which
\* runs up to its call of GetKey; a body or a token header that fails is
\* answered here.  Goroutines are interchangeable, so they take requests in
\* order.
HandleRequest(t, body) ==
  /\ pc[t] = "idle"
  /\ \A u \in Threads : u < t => pc[u] # "idle"
  /\ req' = [req EXCEPT ![t] = body]
  /\ LET r == handleParse(body)
         h == parseHeader(body.oidc_token)
         c == VerifyCall(body.oidc_token, NoKeyResult, 0, now, VerifyFailure(h.err))
         v == handleVerify(body.oidc_token, c.result)
     IN IF ~r.proceed
          THEN /\ resp' = [resp EXCEPT ![t] = r.resp]
               /\ pc' = [pc EXCEPT ![t] = "done"]
               /\ UNCHANGED <<claims, trace, key, tokenString, kid, verified>>
        ELSE IF h.err # ""
          THEN /\ verified' = [verified EXCEPT ![t] = c]
               /\ claims' = [claims EXCEPT ![t] = v.claims]
               /\ resp' = [resp EXCEPT ![t] = v.resp]
               /\ trace' = [trace EXCEPT ![t] = v.trace]
               /\ key' = [key EXCEPT ![t] = v.claims.repository]
               /\ pc' = [pc EXCEPT ![t] = IF v.proceed THEN "rlock" ELSE "done"]
               /\ UNCHANGED <<tokenString, kid>>
        ELSE /\ tokenString' = [tokenString EXCEPT ![t] = body.oidc_token]
             /\ kid' = [kid EXCEPT ![t] = h.kid]
             /\ pc' = [pc EXCEPT ![t] = "krlock"]
             /\ UNCHANGED <<claims, resp, trace, key, verified>>
  /\ UNCHANGED <<now, ncalls, enforcer, limiters, heap, madeFor, mu, lim, ret,
                 log, shadow, passed, lastReset, wake, pureVars>>
  /\ UNCHANGED <<keys, fetchedAt, jwksMu, httpResp, newKeys, publicKey, fetches,
                 fetched, lastCommit>>

\* GetKey has returned to the request's Verify call, which checks the
\* signature and the claims and returns; the handler answers the error or
\* goes on to limiter.Allow.
HandleVerified(t) ==
  /\ pc[t] = "kreturned"
  /\ req[t] # NoBody
  /\ LET c == VerifyCall(tokenString[t], publicKey[t], fetched[t], now,
                         verifyWithKey(tokenString[t], publicKey[t], now))
         v == handleVerify(tokenString[t], c.result)
     IN /\ verified' = [verified EXCEPT ![t] = c]
        /\ claims' = [claims EXCEPT ![t] = v.claims]
        /\ resp' = [resp EXCEPT ![t] = v.resp]
        /\ trace' = [trace EXCEPT ![t] = v.trace]
        /\ key' = [key EXCEPT ![t] = v.claims.repository]
        /\ pc' = [pc EXCEPT ![t] = IF v.proceed THEN "rlock" ELSE "done"]
  /\ tokenString' = [tokenString EXCEPT ![t] = NoJWT]
  /\ kid' = [kid EXCEPT ![t] = ""]
  /\ httpResp' = [httpResp EXCEPT ![t] = NoResponse]
  /\ publicKey' = [publicKey EXCEPT ![t] = NoKeyResult]
  /\ fetched' = [fetched EXCEPT ![t] = 0]
  /\ UNCHANGED <<now, ncalls, enforcer, limiters, heap, madeFor, mu, lim, ret, req,
                 log, shadow, passed, lastReset, wake, pureVars>>
  /\ UNCHANGED <<keys, fetchedAt, jwksMu, newKeys, fetches, lastCommit>>

\* What a fetch can end with when the provider may never answer: the
\* client's timeout or the cancellation of the request, or a good answer.
LiveResponses ==
  {HttpResponse(FALSE, 0, FALSE, FALSE, <<>>),
   HttpResponse(TRUE, StatusOK, TRUE, TRUE, DocA)}

\* A client without a timeout, and a provider that never answers: the fetch
\* does not end.
FetchEnds_NoTimeout(t) == \E response \in {} : FetchResponse(t, response)

\* fetchJWKS: c.httpClient.Do(req) returns, with an answer, or with an error
\* once the client's timeout has passed or the request's context is done.
FetchEnds(t) == \E response \in LiveResponses : FetchResponse(t, response)

\* NewJWKSCache: no key, the zero time, no call in flight.
InitOidc ==
  /\ keys = NoKeys
  /\ fetchedAt = ZeroTime
  /\ jwksMu = Nil
  /\ kid = [t \in Threads |-> ""]
  /\ httpResp = [t \in Threads |-> NoResponse]
  /\ newKeys = [t \in Threads |-> NoKeys]
  /\ publicKey = [t \in Threads |-> NoKeyResult]
  /\ tokenString = [t \in Threads |-> NoJWT]
  /\ fetches = 0
  /\ fetched = [t \in Threads |-> 0]
  /\ lastCommit = [keys |-> NoKeys, fetchedAt |-> ZeroTime]

\* NewLimiter, and no request in flight.
InitLimiter ==
  /\ limiters = [k \in Repos |-> Nil]
  /\ heap = <<>>
  /\ madeFor = <<>>
  /\ mu = Nil
  /\ pc = [t \in Threads |-> "idle"]
  /\ key = [t \in Threads |-> ""]
  /\ lim = [t \in Threads |-> Nil]
  /\ ret = [t \in Threads |-> FALSE]
  /\ req = [t \in Threads |-> NoBody]
  /\ claims = [t \in Threads |-> NoClaims]
  /\ resp = [t \in Threads |-> <<>>]
  /\ trace = [t \in Threads |-> <<>>]
  /\ log = [k \in Repos |-> <<>>]
  /\ shadow = [k \in Repos |-> NewRateLimiter]
  /\ ncalls = 0
  /\ passed = {}
  /\ lastReset = NoReset
  /\ wake = [t \in Threads |-> ZeroTime]

\* NewServer: nothing cached, no bucket, no request in flight.
Init ==
  /\ now = 0
  /\ enforcer \in EnforcerConfigs
  /\ InitLimiter
  /\ InitOidc
  /\ verified = [t \in Threads |-> NoVerifyCall]
  /\ decision = NoDecision
  /\ minted = NoMintCall
  /\ validated = NoValidateCall

\* The server: concurrent requests to POST /auth/github-oidc, served within
\* one tick of the clock.
Next ==
  \/ \E t \in Threads, body \in Bodies : HandleRequest(t, body)
  \/ \E t \in Threads : GetKeyRead(t)
  \/ \E t \in Threads : GetKeyLock(t)
  \/ \E t \in Threads : GetKeyCheck(t)
  \/ \E t \in Threads : FetchEnds(t)
  \/ \E t \in Threads : FetchStoreKeys(t)
  \/ \E t \in Threads : FetchStoreTime(t)
  \/ \E t \in Threads : HandleVerified(t)
  \/ \E t \in Threads : GetLimiterRead(t)
  \/ \E t \in Threads : GetLimiterLock(t)
  \/ \E t \in Threads : GetLimiterCreate(t)
  \/ \E t \in Threads : BucketAllow(t)
  \/ \E t \in Threads : HandleAllowed(t)

Spec == Init /\ [][Next]_vars

\* NewLimiter; the enforcer plays no part.
InitReset == Init /\ enforcer.denyList = {}

\* The limiter alone: goroutines calling Limiter.Allow, again and again.
NextLimiter ==
  \/ \E t \in Threads, k \in Repos : CallAllow(t, k)
  \/ \E t \in Threads : GetLimiterRead(t)
  \/ \E t \in Threads : GetLimiterLock(t)
  \/ \E t \in Threads : GetLimiterCreate(t)
  \/ \E t \in Threads : BucketAllow(t)
  \/ \E t \in Threads : AllowReturn(t)
  \/ Tick

SpecLimiter == InitReset /\ [][NextLimiter]_vars

\* The limiter with callers that sleep between their calls to Allow: for
\* as long as a token takes, or for longer than a bucket takes to fill.
NextRefill ==
  \/ \E t \in Threads, k \in Repos : CallAllow(t, k)
  \/ \E t \in Threads : GetLimiterRead(t)
  \/ \E t \in Threads : GetLimiterLock(t)
  \/ \E t \in Threads : GetLimiterCreate(t)
  \/ \E t \in Threads : BucketAllow(t)
  \/ \E t \in Threads : AllowReturn(t)
  \/ \E d \in {TicksPerToken, LongIdle} : Sleep(d)

SpecRefill == InitReset /\ [][NextRefill]_vars

\* The limiter with all its operations, Allow, Wait and Reset, while the
\* clock stands still.
NextReset ==
  \/ \E t \in Threads, k \in Repos : CallAllow(t, k)
  \/ \E t \in Threads, k \in Repos : CallWait(t, k)
  \/ \E t \in Threads : GetLimiterRead(t)
  \/ \E t \in Threads : GetLimiterLock(t)
  \/ \E t \in Threads : GetLimiterCreate(t)
  \/ \E t \in Threads : BucketAllow(t)
  \/ \E t \in Threads : WaitReserve(t)
  \/ \E t \in Threads : WaitReturn(t)
  \/ \E t \in Threads : AllowReturn(t)
  \/ Reset

SpecReset == InitReset /\ [][NextReset]_vars

\* NewGitHubVerifier: the cache as constructed; the enforcer plays no part.
InitCache == Init /\ enforcer.denyList = {}

\* The key cache alone: goroutines calling JWKSCache.GetKey, again and again,
\* against a provider that answers each fetch as it likes.
NextCache ==
  \/ \E t \in Threads, k \in Kids : CallGetKey(t, k)
  \/ \E t \in Threads : GetKeyRead(t)
  \/ \E t \in Threads : GetKeyLock(t)
  \/ \E t \in Threads : GetKeyCheck(t)
  \/ \E t \in Threads, response \in Responses : FetchResponse(t, response)
  \/ \E t \in Threads : FetchStoreKeys(t)
  \/ \E t \in Threads : FetchStoreTime(t)
  \/ \E t \in Threads : GetKeyReturn(t)
  \/ Tick

SpecCache == InitCache /\ [][NextCache]_vars

\* The verifier on its key cache: goroutines calling Verify, one call each.
NextVerify ==
  \/ \E t \in Threads, h \in SomeHeaders : CallVerify(t, h)
  \/ \E t \in Threads : GetKeyRead(t)
  \/ \E t \in Threads : GetKeyLock(t)
  \/ \E t \in Threads : GetKeyCheck(t)
  \/ \E t \in Threads, response \in SomeResponses : FetchResponse(t, response)
  \/ \E t \in Threads : FetchStoreKeys(t)
  \/ \E t \in Threads : FetchStoreTime(t)
  \/ \E t \in Threads, rest \in SomeSignedParts : VerifyFinish(t, rest)
  \/ \E t \in Threads : VerifyReturn(t)
  \/ Tick

SpecVerify == InitCache /\ [][NextVerify]_vars

\* The verifier on its key cache with a provider that may never answer; the
\* calls are concurrent, within one tick of the clock.
NextLive ==
  \/ \E t \in Threads, h \in {g \in SomeHeaders : g.alg = "RS256"} : CallVerify(t, h)
  \/ \E t \in Threads : GetKeyRead(t)
  \/ \E t \in Threads : GetKeyLock(t)
  \/ \E t \in Threads : GetKeyCheck(t)
  \/ \E t \in Threads : FetchEnds(t)
  \/ \E t \in Threads : FetchStoreKeys(t)
  \/ \E t \in Threads : FetchStoreTime(t)
  \/ \E t \in Threads, rest \in SomeSignedParts : VerifyFinish(t, rest)
  \/ \E t \in Threads : VerifyReturn(t)

\* The steps of a goroutine inside Verify.
Run(t) ==
  \/ GetKeyRead(t)
  \/ GetKeyLock(t)
  \/ GetKeyCheck(t)
  \/ FetchEnds(t)
  \/ FetchStoreKeys(t)
  \/ FetchStoreTime(t)
  \/ \E rest \in SomeSignedParts : VerifyFinish(t, rest)

\* A goroutine that can go on does go on: the scheduler runs it, the lock
\* it waits for is handed to it once free, and the HTTP client's timeout
\* ends its fetch.
Fairness == \A t \in Threads : WF_vars(Run(t))

SpecLive == InitCache /\ [][NextLive]_vars /\ Fairness

\* Verify as a function of the token, of what GetKey answers and of the time.
InitClaims ==
  /\ now = 0
  /\ enforcer \in EnforcerConfigs
  /\ InitLimiter
  /\ InitOidc
  /\ verified \in {[t \in Threads |-> IF t = 1 THEN c ELSE NoVerifyCall] :
                     c \in {VerifyCall(j, k, 0, at, Pending) :
                              j \in JWTs, k \in KeyResults, at \in 0..MaxTime}}
  /\ decision = NoDecision
  /\ minted = NoMintCall
  /\ validated = NoValidateCall

NextClaims ==
  \/ \E t \in Threads : ApplyVerify(t)
  \/ \E t \in Threads : RespondVerify(t)

SpecClaims == InitClaims /\ [][NextClaims]_vars

\* Evaluate as a function of the enforcer's configuration, the repository and
\* the ref.
InitPolicy ==
  /\ now = 0
  /\ enforcer \in PolicyConfigs
  /\ InitLimiter
  /\ InitOidc
  /\ verified = [t \in Threads |-> NoVerifyCall]
  /\ decision \in {Decision(r, f, PendingDecision) :
                     r \in PolicyRepos, f \in PolicyRefs}
  /\ minted = NoMintCall
  /\ validated = NoValidateCall

NextPolicy == ApplyEvaluate

SpecPolicy == InitPolicy /\ [][NextPolicy]_vars

\* The minter: Mint as a function of the minter, the claims and the time, its
\* token handed to Validate; and Validate as a function of the minter, the
\* token and the time.
InitMinter ==
  /\ now = 0
  /\ enforcer \in EnforcerConfigs /\ enforcer.denyList = {}
  /\ InitLimiter
  /\ InitOidc
  /\ verified = [t \in Threads |-> NoVerifyCall]
  /\ decision = NoDecision
  /\ \/ /\ minted \in {MintCall(m, c, t, PendingMint) :
                          m \in Minters, c \in MintInputs, t \in MintTimes}
        /\ validated = NoValidateCall
     \/ /\ minted = NoMintCall
        /\ validated \in {ValidateCall(Minter(x, TicksPerSecond), k, t, FALSE,
                                         PendingValidate) :
                             x \in Secrets, k \in AccessTokens, t \in ValidateTimes}

\* The delays after which a minted token is presented.
Delays == 0 .. ((TokenTTL + 1) * TicksPerSecond)

NextMinter ==
  \/ \E jti \in Jtis : ApplyMint(jti)
  \/ \E x \in Secrets, d \in Delays : PresentMinted(x, d)
  \/ ApplyValidate

SpecMinter == InitMinter /\ [][NextMinter]_vars

\* ------------------------------------------------------------ vocabulary
\* The request of t: its body is refused, or its Verify call has returned
\* claims, or an error; and the repository and ref its token names.
Malformed(t) == req[t] # NoBody /\ (~req[t].json \/ req[t].oidc_token = EmptyToken)
Verified(t) == req[t] # NoBody /\ verified[t] # NoVerifyCall
               /\ verified[t].result.err = ""
Unverified(t) == req[t] # NoBody /\ verified[t] # NoVerifyCall
                 /\ verified[t].result.err # ""
TokenRepository(t) == req[t].oidc_token.payload.repository.s
TokenRef(t) == req[t].oidc_token.payload.ref.s
InVerify(t) == pc[t] \in {"krlock", "kwlock", "klocked", "kfetching",
                          "kfetched", "kstored", "kreturned"}
InLimiter(t) == pc[t] \in {"rlock", "wlock", "locked", "allow", "returned"}
Invoked(t, name) == \E i \in 1..Len(trace[t]) : trace[t][i].stage = name
LoggedBy(t) == \E k \in Repos : \E i \in 1..Len(log[k]) : log[k][i].by = t
StageOrder == <<"Verify", "Allow", "Evaluate", "Mint">>
Answer(t) == resp[t][1]

\* ------------------------------------------------------------------ claims
\* C1: within one request the stages run in the order Verify, Allow,
\* Evaluate, Mint, and no stage is invoked after an earlier stage failed;
\* the limiter is entered only by a request whose Verify succeeded.
C1_StageOrder ==
  \A t \in Threads :
    /\ Len(trace[t]) <= Len(StageOrder)
    /\ \A i \in 1..Len(trace[t]) :
         /\ trace[t][i].stage = StageOrder[i]
         /\ i < Len(trace[t]) => trace[t][i].ok
    /\ (req[t] # NoBody /\ InLimiter(t)) => trace[t] = <<Stage("Verify", TRUE)>>
    /\ LoggedBy(t) => (Len(trace[t]) >= 1 /\ trace[t][1] = Stage("Verify", TRUE))

C1_Witness ==
  \E t, u \in Threads :
    /\ Len(trace[t]) = 4 /\ trace[t][4] = Stage("Mint", TRUE)
    /\ trace[u] = <<Stage("Verify", TRUE), Stage("Allow", FALSE)>>

\* The status and error code the request of t must end with, from its body,
\* the verifier's verdict, the limiter's answer and the policy.
ExpectedCode(t) ==
  IF Malformed(t) THEN <<StatusBadRequest, "invalid_request">>
  ELSE IF Unverified(t) THEN <<StatusUnauthorized, "invalid_token">>
  ELSE IF ~ret[t] THEN <<StatusTooManyRequests, "rate_limited">>
  ELSE IF Evaluate(enforcer, TokenRepository(t), TokenRef(t)).err
    THEN <<StatusForbidden, "policy_violation">>
  ELSE <<StatusOK, "">>

\* C2: a request ends with exactly one response, and its status and error
\* code are those of the stage that failed (200 and a credential if none
\* did); no response is written before the request ends. Signing cannot fail
\* in Mint as built, so the handler's answer to a mint error is checked on
\* the error value Mint would return.
C2_OneResponsePerRequest ==
  /\ \A t \in Threads :
       /\ pc[t] # "done" => resp[t] = <<>>
       /\ pc[t] = "done" =>
            /\ Len(resp[t]) = 1
            /\ <<Answer(t).status, Answer(t).error>> = ExpectedCode(t)
            /\ (Answer(t).status = StatusOK) = (Answer(t).access_token # NoAccessToken)
  /\ \A k \in GoodTokens :
       LET r == respondMint(MintFailure,
                            handleVerify(k, extractClaims(k.payload)).claims) IN
         /\ Len(r.resp) = 1
         /\ r.resp[1].status = StatusInternalServerError
         /\ r.resp[1].error = "internal_error"
         /\ r.resp[1].access_token = NoAccessToken

C2_Witness ==
  \E a, b \in Threads :
    /\ pc[a] = "done" /\ Answer(a).error = "policy_violation"
    /\ pc[b] = "done" /\ Answer(b).error = "invalid_request"

InvalidRequest(r) == r.status = StatusBadRequest /\ r.error = "invalid_request"
InvalidToken(r) == r.status = StatusUnauthorized /\ r.error = "invalid_token"

\* C3: a request whose body is not JSON or whose oidc_token is missing or
\* empty is answered invalid_request at once; no stage is invoked for it, it
\* never holds a bucket, and the step that handles it leaves the limiter's
\* map, buckets and lock as they were.
C3_MalformedTouchesNothing ==
  /\ [](\A t \in Threads : Malformed(t) =>
          /\ pc[t] = "done"
          /\ trace[t] = <<>>
          /\ Len(resp[t]) = 1 /\ InvalidRequest(Answer(t))
          /\ lim[t] = Nil
          /\ ~LoggedBy(t))
  /\ [][\A t \in Threads : (pc[t] = "idle" /\ Malformed(t)') =>
          UNCHANGED <<limiters, heap, madeFor, mu, log, shadow,
                      keys, fetchedAt, jwksMu, fetches>>]_vars

C3_Witness ==
  \E t, u \in Threads :
    /\ Malformed(t) /\ req[t].json /\ pc[t] = "done"
    /\ Malformed(u) /\ ~req[u].json /\ pc[u] = "done"
    /\ \A k \in Repos : limiters[k] = Nil

\* The repositories named by the assertions verified so far.
VerifiedRepos == {TokenRepository(t) : t \in {u \in Threads : Verified(u)}}

\* C4: a request whose assertion fails verification is answered invalid_token
\* with only Verify invoked; it never enters the limiter, so it creates no
\* bucket and takes no token, and the keys the limiter tracks are all
\* repositories of successfully verified assertions.
C4_UnverifiedNeverLimited ==
  /\ [](/\ \A t \in Threads : Unverified(t) =>
              /\ pc[t] = "done"
              /\ trace[t] = <<Stage("Verify", FALSE)>>
              /\ Len(resp[t]) = 1 /\ InvalidToken(Answer(t))
              /\ lim[t] = Nil
              /\ ~LoggedBy(t)
        /\ {k \in Repos : limiters[k] # Nil} \subseteq VerifiedRepos
        /\ \A i \in 1..Len(madeFor) : madeFor[i] \in VerifiedRepos
        /\ \A k \in Repos : log[k] # <<>> => k \in VerifiedRepos)
  /\ [][\A t \in Threads : (~Unverified(t) /\ Unverified(t)') =>
          UNCHANGED <<limiters, heap, madeFor, mu, log, shadow>>]_vars

C4_Witness ==
  \E t, u \in Threads :
    /\ Unverified(t) /\ pc[t] = "done" /\ TokenRepository(t) = "evil/repo"
    /\ Verified(u) /\ pc[u] = "done" /\ TokenRepository(u) = "test/repo"
    /\ limiters["evil/repo"] = Nil /\ limiters["test/repo"] # Nil

\* C5: every finished request with a verified assertion for a repository on
\* the deny list is answered policy_violation, and Mint is never invoked
\* for it.
C5_DeniedRepoIsPolicyViolation ==
  \A t \in Threads :
    (Verified(t) /\ TokenRepository(t) \in enforcer.denyList) =>
      /\ ~Invoked(t, "Mint")
      /\ pc[t] = "done" =>
           (Answer(t).status = StatusForbidden /\ Answer(t).error = "policy_violation")

\* The verified requests for repository r, and whether the policy allows
\* every one of them.
RequestsFor(r) == {t \in Threads : Verified(t) /\ TokenRepository(t) = r}
PolicyAllows(t) ==
  ~Evaluate(enforcer, TokenRepository(t), TokenRef(t)).err
Minted(t) == pc[t] = "done" /\ Answer(t).status = StatusOK
             /\ Answer(t).access_token # NoAccessToken
RateLimited(t) == pc[t] = "done" /\ Answer(t).status = StatusTooManyRequests
                  /\ Answer(t).error = "rate_limited"

\* C6: with no time elapsed, among the verified, policy-allowed requests for
\* one repository (they being all the requests for it), in any interleaving:
\* of those the limiter has answered exactly min(their number, Burst) were
\* allowed, an allowed one ends minted and a refused one rate_limited; so
\* when all k have ended, min(k, Burst) are minted and the rest rate_limited.
C6_BurstOfRequestsMinted ==
  \A r \in Repos :
    (now = 0 /\ \A t \in RequestsFor(r) : PolicyAllows(t)) =>
      LET answered == {t \in RequestsFor(r) : pc[t] \in {"returned", "done"}}
          ended == {t \in RequestsFor(r) : pc[t] = "done"}
      IN /\ Cardinality({t \in answered : ret[t]}) = Min(Cardinality(answered), Burst)
         /\ \A t \in ended : IF ret[t] THEN Minted(t) ELSE RateLimited(t)
         /\ ended = RequestsFor(r) =>
              /\ Cardinality({t \in ended : Minted(t)})
                   = Min(Cardinality(RequestsFor(r)), Burst)
              /\ Cardinality({t \in ended : RateLimited(t)})
                   = Cardinality(RequestsFor(r)) - Min(Cardinality(RequestsFor(r)), Burst)

C6_Witness ==
  /\ now = 0
  /\ \A t \in Threads : /\ t \in RequestsFor("test/repo")
                        /\ PolicyAllows(t) /\ pc[t] = "done"
  /\ Cardinality({t \in Threads : Minted(t)}) = Burst
  /\ Cardinality({t \in Threads : RateLimited(t)}) = NumThreads - Burst

\* -------------------------------------------------------- limiter claims
Allowed(k) == {i \in 1..Len(log[k]) : log[k][i].ok}

\* C7: on a fresh limiter with no time elapsed, the calls to Allow for one
\* key return true for the first Burst of them and false from call
\* Burst + 1 on.
C7_FirstBurstCallsAllowed ==
  now = 0 =>
    \A k \in Repos : \A i \in 1..Len(log[k]) : log[k][i].ok = (i <= Burst)

C7_Witness ==
  /\ now = 0
  /\ \E k \in Repos :
       /\ Len(log[k]) = Burst + 1
       /\ \A i \in 1..Burst : log[k][i].ok
       /\ ~log[k][Burst + 1].ok
       /\ \A i \in 1..Len(log[k]) : log[k][i].by = log[k][1].by

\* C8: with no refill, of the calls that goroutines make concurrently for one
\* key exactly min(their number, Burst) return true: none is admitted beyond
\* the burst and none is refused while a token is left; the goroutines' own
\* results agree with that.
C8_ConcurrentExactlyBurst ==
  now = 0 =>
    \A k \in Repos :
      /\ Cardinality(Allowed(k)) = Min(Len(log[k]), Burst)
      /\ LET back == {t \in Threads : pc[t] = "returned" /\ key[t] = k}
         IN Cardinality({t \in back : ret[t]}) <= Burst

C8_Witness ==
  /\ now = 0
  /\ \E k \in Repos :
       /\ \A t \in Threads : pc[t] = "returned" /\ key[t] = k
       /\ Len(log[k]) = NumThreads
       /\ Cardinality({t \in Threads : ret[t]}) = Burst
       /\ Cardinality({t \in Threads : ~ret[t]}) = NumThreads - Burst

\* C9: the calls for a key get the answers a limiter that never saw another
\* key would give, and the key's bucket is in the state that limiter's bucket
\* would be in: calls for one key change nothing for another.
C9_KeysIsolated ==
  \A k \in Repos :
    /\ \A i \in 1..Len(log[k]) : log[k][i].ok = log[k][i].solo
    /\ limiters[k] # Nil => heap[limiters[k]] = shadow[k]
    /\ limiters[k] = Nil => (shadow[k] = NewRateLimiter /\ log[k] = <<>>)

C9_Witness ==
  \E a, b \in Repos :
    /\ a # b
    /\ Len(log[a]) = Burst + 1 /\ ~log[a][Burst + 1].ok /\ log[a][Burst + 1].at = 0
    /\ Len(log[b]) = 1 /\ log[b][1].ok /\ log[b][1].at = 0
    /\ heap[limiters[a]].tokens < TicksPerToken
    /\ now = 0

\* The buckets ever created for key k.
BucketsMadeFor(k) == {i \in 1..Len(madeFor) : madeFor[i] = k}

\* C10: whatever the interleaving of first calls for a key, one bucket is
\* created for it, the map keeps that bucket, and every caller that
\* getLimiter has returned to holds it.
C10_OneBucketPerKey ==
  /\ Len(heap) = Len(madeFor)
  /\ \A k \in Repos :
       /\ Cardinality(BucketsMadeFor(k)) <= 1
       /\ BucketsMadeFor(k) = IF limiters[k] = Nil THEN {} ELSE {limiters[k]}
  /\ \A t \in Threads :
       pc[t] \in {"allow", "returned"} => (lim[t] # Nil /\ lim[t] = limiters[key[t]])

C10_Witness ==
  \E t, u \in Threads :
    /\ t # u /\ key[t] = key[u]
    /\ pc[u] = "locked" /\ mu = u
    /\ pc[t] = "allow" /\ lim[t] = limiters[key[t]]
    /\ Cardinality(BucketsMadeFor(key[t])) = 1

\* ------------------------------------------------------ key cache claims
\* The cached set was fetched less than the TTL before time t.
Fresh(f, t) == f # ZeroTime /\ t - f < JwksTTL
InGetKey(t) == pc[t] \in {"krlock", "kwlock", "klocked", "kfetching",
                          "kfetched", "kstored", "kreturned"}
Moves(t) == pc'[t] # pc[t]

\* C11: a GetKey call that finds its kid in the cached set, that set having
\* been fetched less than the TTL ago, returns the cached key at that check
\* and fetches nothing, whether the check is the read-locked one or the one
\* under the write lock; the cache is left as it was.
C11_FreshHitNoFetch ==
  [][\A t \in Threads :
       (/\ pc[t] \in {"krlock", "klocked"} /\ Moves(t)
        /\ keys[kid[t]] # NoKey /\ Fresh(fetchedAt, now)) =>
         /\ pc'[t] = "kreturned"
         /\ publicKey'[t] = KeyResult(keys[kid[t]], "")
         /\ fetches' = fetches /\ fetched'[t] = 0
         /\ UNCHANGED <<keys, fetchedAt, lastCommit>>]_vars

C11_Witness ==
  \E t \in Threads :
    /\ pc[t] = "kreturned" /\ fetched[t] = 0
    /\ publicKey[t] = KeyResult(keys[kid[t]], "") /\ publicKey[t].key # NoKey
    /\ Fresh(fetchedAt, now) /\ now > fetchedAt
    /\ fetches = 1 /\ ncalls = MaxCalls

\* The callers of one round: every goroutine has made one call of GetKey,
\* all for kid k, all have returned, and the TTL has not elapsed since the
\* cache was built.
OneRound(k) ==
  /\ ncalls = NumThreads
  /\ \A t \in Threads : pc[t] = "kreturned" /\ kid[t] = k
  /\ now < JwksTTL
Fetchers == {t \in Threads : fetched[t] > 0}

\* C12 as stated: goroutines calling GetKey concurrently for one kid that is
\* not cached make exactly one network fetch in total.
C12_ConcurrentOneFetch ==
  \A k \in Kids : OneRound(k) => fetches = 1

\* C12 as amended: each of the concurrent callers fetches at most once; at
\* most one fetch delivers the key, every other fetch having failed or
\* lacked the kid; so the fetches are exactly one when every caller gets the
\* key.
C12_ConcurrentOneGoodFetch ==
  \A k \in Kids : OneRound(k) =>
    /\ fetches = Cardinality(Fetchers)
    /\ fetches >= 1
    /\ Cardinality({t \in Fetchers : publicKey[t].err = ""}) <= 1
    /\ (\A t \in Threads : publicKey[t].err = "") => fetches = 1
    /\ \A t \in Threads \ Fetchers :
         publicKey[t].err = "" /\ publicKey[t].key # NoKey

C12_Witness ==
  \E k \in Kids :
    /\ OneRound(k)
    /\ fetches = 1
    /\ \A t \in Threads : publicKey[t].err = "" /\ publicKey[t].key # NoKey
    /\ Cardinality(Fetchers) = 1

\* C13: a GetKey call fetches at most once.  When its check under the write
\* lock finds the kid absent it starts exactly one fetch, and after a fetch
\* that succeeded it returns, with not-found if the kid is still absent,
\* without fetching again.
C13_OneRefreshPerCall ==
  /\ [](\A t \in Threads :
          /\ fetched[t] <= 1
          /\ pc[t] \in {"kfetching", "kfetched", "kstored"} => fetched[t] = 1
          /\ (pc[t] = "kreturned" /\ publicKey[t].err = "not found") => fetched[t] = 1)
  /\ [][\A t \in Threads :
          /\ (pc[t] = "klocked" /\ Moves(t) /\ keys[kid[t]] = NoKey) =>
                /\ pc'[t] = "kfetching"
                /\ fetched'[t] = 1 /\ fetches' = fetches + 1
          /\ (pc[t] = "kstored" /\ Moves(t)) =>
                /\ pc'[t] = "kreturned" /\ fetches' = fetches
                /\ keys[kid[t]] = NoKey => publicKey'[t] = KeyResult(NoKey, "not found")
                /\ keys[kid[t]] # NoKey => publicKey'[t] = KeyResult(keys[kid[t]], "")]_vars

C13_Witness ==
  \E t \in Threads :
    /\ pc[t] = "kreturned" /\ publicKey[t] = KeyResult(NoKey, "not found")
    /\ fetched[t] = 1 /\ fetches = 1
    /\ keys[kid[t]] = NoKey /\ fetchedAt # ZeroTime

\* A fetch fails: no answer, a status other than 200, a body that cannot be
\* read or is not JSON.
ResponseFails(r) ==
  ~r.transport \/ r.status # StatusOK \/ ~r.readable \/ ~r.json

\* C14: when the fetch of a GetKey call fails, the call returns an error and
\* no key, and the cached set and its fetched-at time are what they were;
\* nothing is stored after a failed fetch, and the cache only changes in the
\* store steps of the goroutine holding the write lock.
C14_FailedFetchKeepsCache ==
  /\ [](\A t \in Threads :
          pc[t] \in {"kfetched", "kstored"} => ~ResponseFails(httpResp[t]))
  /\ [][\A t \in Threads :
          (pc[t] = "kfetching" /\ Moves(t) /\ ResponseFails(httpResp'[t])) =>
            /\ pc'[t] = "kreturned"
            /\ publicKey'[t] = KeyResult(NoKey, "failed to fetch JWKS")
            /\ UNCHANGED <<keys, fetchedAt, lastCommit>>]_vars
  /\ [][(keys' # keys \/ fetchedAt' # fetchedAt) =>
          (jwksMu # Nil /\ pc[jwksMu] \in {"kfetched", "kstored"}
           /\ Moves(jwksMu))]_vars

C14_Witness ==
  \E t \in Threads :
    /\ pc[t] = "kreturned" /\ publicKey[t] = KeyResult(NoKey, "failed to fetch JWKS")
    /\ ResponseFails(httpResp[t]) /\ httpResp[t].transport
    /\ keys[kid[t]] # NoKey /\ fetchedAt # ZeroTime
    /\ keys = lastCommit.keys /\ fetchedAt = lastCommit.fetchedAt

\* The key sets a whole response can produce.
WholeSets == {NoKeys} \cup {ParseKeys(d, NoKeys) : d \in Docs}

\* C15: the cached set is always the whole set of one response; whenever the
\* write lock is free, and at every read-locked check, the set and the
\* fetched-at time are those of the same completed refresh: no reader sees
\* a set mixing two fetches, nor a new set with the old time.
C15_AtomicReplacement ==
  /\ [](/\ keys \in WholeSets
        /\ jwksMu = Nil =>
             (keys = lastCommit.keys /\ fetchedAt = lastCommit.fetchedAt))
  /\ [][\A t \in Threads :
          (pc[t] = "krlock" /\ Moves(t)) =>
            (keys = lastCommit.keys /\ fetchedAt = lastCommit.fetchedAt)]_vars

C15_Witness ==
  \E t, u \in Threads :
    /\ pc[t] = "kstored" /\ jwksMu = t
    /\ keys # lastCommit.keys /\ lastCommit.keys # NoKeys
    /\ fetchedAt = lastCommit.fetchedAt /\ fetchedAt < now
    /\ pc[u] = "krlock"

\* ------------------------------------------------------- verifier claims
\* The algorithms of the RSA family, PSS included.
RSAFamily == {"RS256", "RS384", "RS512", "PS256", "PS384", "PS512"}
CacheState == <<keys, fetchedAt, jwksMu, lastCommit, fetches, fetched, kid,
                publicKey, httpResp, newKeys>>

\* C16: a Verify call for a token whose alg is not of the RSA family returns
\* an error and no claims without calling GetKey: the call is never inside
\* GetKey, it fetches nothing, and the step that runs it leaves the key
\* cache, the lock and the fetch count as they were.
C16_NonRSAFailsBeforeLookup ==
  /\ [](\A t \in Threads :
          /\ InGetKey(t) => tokenString[t].alg \in RSAFamily
          /\ (pc[t] = "vreturned" /\ verified[t].token.alg \notin RSAFamily) =>
               /\ verified[t].result.err # ""
               /\ verified[t].result.claims = NoVerifiedClaims
               /\ verified[t].key = NoKeyResult
               /\ verified[t].fetched = 0)
  /\ [][\A t \in Threads :
          (/\ pc[t] = "idle" /\ pc'[t] = "vreturned"
           /\ verified'[t].token.alg \notin RSAFamily) => UNCHANGED CacheState]_vars

C16_Witness ==
  \E t \in Threads :
    /\ pc[t] = "vreturned"
    /\ verified[t].token.alg = "HS256"
    /\ verified[t].result = VerifyFailure("unexpected signing method")
    /\ keys[verified[t].token.kid] # NoKey /\ fetches = 1
    /\ \E u \in Threads : jwksMu = u /\ pc[u] = "kstored"

\* What C17 asks of a token: signed by the key GetKey answered with, the
\* configured issuer, an audience among its own, inside its window at time
\* t (leeway included), and the required claims.
HasAudience(p) ==
  \/ p.aud.type = "string" /\ p.aud.s = Audience
  \/ p.aud.type = "array" /\ \E i \in 1..Len(p.aud.list) :
        p.aud.list[i].type = "string" /\ p.aud.list[i].s = Audience
InWindow(p, t) ==
  /\ p.exp.type = "number" /\ 10 * t < 10 * (p.exp.whole + ClockSkew) + p.exp.tenths
  /\ \/ p.nbf.type = "absent"
     \/ p.nbf.type = "number" /\ 10 * t >= 10 * (p.nbf.whole - ClockSkew) + p.nbf.tenths
NonEmpty(v) == v.type = "string" /\ v.s # ""
HasRunID(p) == NonEmpty(p.run_id) \/ (p.run_id.type = "number" /\ p.run_id.tenths = 0)
HasWorkflow(p) ==
  \/ NonEmpty(p.workflow_ref)
  \/ p.workflow_ref.type = "absent" /\ NonEmpty(p.job_workflow_ref)
ValidAssertion(c) ==
  /\ c.token.wellFormed /\ c.token.alg \in {"RS256", "RS384", "RS512"}
  /\ c.token.hasKid
  /\ c.key.err = "" /\ c.key.key # NoKey /\ c.token.sig = c.key.key
  /\ c.token.payload.iss = Str(Issuer)
  /\ HasAudience(c.token.payload)
  /\ InWindow(c.token.payload, c.at)
  /\ NonEmpty(c.token.payload.repository) /\ NonEmpty(c.token.payload.ref)
  /\ NonEmpty(c.token.payload.actor)
  /\ HasRunID(c.token.payload) /\ HasWorkflow(c.token.payload)
Returned(c) == c # NoVerifyCall /\ c.result # Pending

\* C17: Verify of a valid assertion succeeds, and the claims returned carry
\* the assertion's repository, ref and actor, its run_id (the decimal string
\* of a numeric one) and its workflow_ref, or its job_workflow_ref when
\* workflow_ref is absent.
C17_ValidAssertionVerifies ==
  \A t \in Threads :
    (Returned(verified[t]) /\ ValidAssertion(verified[t])) =>
      LET p == verified[t].token.payload
          c == verified[t].result.claims
      IN /\ verified[t].result.err = ""
         /\ c.Repository = p.repository.s
         /\ c.Ref = p.ref.s
         /\ c.Actor = p.actor.s
         /\ c.RunID = IF p.run_id.type = "string" THEN p.run_id.s
                      ELSE ToDecimal(p.run_id.whole)
         /\ c.Workflow = IF p.workflow_ref.type = "string" THEN p.workflow_ref.s
                         ELSE p.job_workflow_ref.s

C17_Witness ==
  \E t \in Threads :
    /\ Returned(verified[t]) /\ ValidAssertion(verified[t])
    /\ verified[t].token.payload.run_id = Num(77, 0)
    /\ verified[t].result.claims.RunID = "77"
    /\ verified[t].result.claims.Repository = "test/repo"
    /\ verified[t].token.kid = "kid2" /\ verified[t].key.key = "B2"
    /\ verified[t].at = MaxTime

\* C18: the claims Verify returns without error have a non-empty repository,
\* ref, actor, run id and workflow; with an error it returns no claims.
C18_ClaimsCompleteOrNone ==
  \A t \in Threads :
    Returned(verified[t]) =>
      LET c == verified[t].result.claims IN
        IF verified[t].result.err = ""
          THEN /\ c.Repository # "" /\ c.Ref # "" /\ c.Actor # ""
               /\ c.RunID # "" /\ c.Workflow # ""
          ELSE c = NoVerifiedClaims

C18_Witness ==
  \E t \in Threads :
    /\ Returned(verified[t]) /\ verified[t].result.err = ""
    /\ verified[t].token.payload.workflow_ref = Absent
    /\ verified[t].result.claims.Workflow = "reusable.yml@refs/heads/main"
    /\ verified[t].result.claims.Actor = "octocat"
    /\ verified[t].result.claims.RunID = "77"

\* --------------------------------------------------------- policy claims
Decided == decision # NoDecision /\ decision.result # PendingDecision

\* C19: Evaluate denies a repository of the deny list with "denied by
\* policy", be it also in the allow list or not, and whatever the ref.
C19_DenyListFirst ==
  (Decided /\ decision.repository \in enforcer.denyList) =>
    (decision.result.err /\ decision.result.reason = "denied by policy")

C19_Witness ==
  /\ Decided
  /\ decision.repository \in enforcer.denyList
  /\ enforcer.allowList # {} /\ decision.repository \notin enforcer.allowList
  /\ enforcer.defaultBranchOnly /\ decision.ref = "refs/heads/" \o enforcer.defaultBranch
  /\ decision.result = Error("denied by policy")

\* C20: for a repository outside the deny list, a non-empty allow list that
\* lacks it makes Evaluate deny with "not in allowlist" whatever the ref, and
\* an empty allow list restricts nothing: the answer is then that of the
\* branch rule alone.
C20_AllowList ==
  (Decided /\ decision.repository \notin enforcer.denyList) =>
    /\ (enforcer.allowList # {} /\ decision.repository \notin enforcer.allowList) =>
         (decision.result.err /\ decision.result.reason = "not in allowlist")
    /\ enforcer.allowList = {} =>
         /\ decision.result.reason # "not in allowlist"
         /\ decision.result.err =
              (enforcer.defaultBranchOnly
               /\ decision.ref # "refs/heads/" \o enforcer.defaultBranch)

C20_Witness ==
  /\ Decided
  /\ decision.repository \notin enforcer.denyList /\ enforcer.denyList # {}
  /\ enforcer.allowList = {}
  /\ enforcer.defaultBranchOnly
  /\ decision.ref = "refs/heads/" \o enforcer.defaultBranch
  /\ decision.result = NoError

\* The repository passes the deny list and the allow list.
PassesLists == /\ decision.repository \notin enforcer.denyList
               /\ (enforcer.allowList = {} \/ decision.repository \in enforcer.allowList)

\* C21: for a repository passing the lists, with defaultBranchOnly and branch
\* B Evaluate allows the ref "refs/heads/" + B and denies every other ref
\* (another branch, a tag, the bare name, a longer ref) with "only default
\* branch"; without defaultBranchOnly it allows every ref.
C21_DefaultBranchExact ==
  (Decided /\ PassesLists) =>
    IF enforcer.defaultBranchOnly
      THEN IF decision.ref = "refs/heads/" \o enforcer.defaultBranch
             THEN decision.result = NoError
             ELSE decision.result = Error("only default branch")
      ELSE decision.result = NoError

C21_Witness ==
  /\ Decided /\ PassesLists
  /\ enforcer.allowList # {} /\ enforcer.denyList # {}
  /\ enforcer.defaultBranchOnly /\ enforcer.defaultBranch = "main"
  /\ decision.ref = "main"
  /\ decision.result = Error("only default branch")

\* --------------------------------------------------------- minter claims
MintDone == minted # NoMintCall /\ minted.result # PendingMint
ValidateDone == validated # NoValidateCall /\ validated.result # PendingValidate
\* The expiry a token carries, in ticks.
EmbeddedExpiry(tok) == tok.payload.exp.whole * TicksPerSecond

C23_ExpiryIsIssuedPlusTTL ==
  MintDone =>
    LET p == minted.result.token.payload IN
      /\ p.iat = Num(Unix(minted.at), 0)
      /\ p.exp.type = "number" /\ p.exp.tenths = 0
      /\ p.exp.whole * TicksPerSecond = p.iat.whole * TicksPerSecond + minted.minter.ttl
      /\ minted.result.exp = minted.at + minted.minter.ttl

\* C23 as amended: iat is the whole second of the clock at mint time and exp
\* the whole second of that time plus the TTL; exp is iat plus the TTL when
\* the TTL is a whole number of seconds, and within a second of it
\* otherwise; the expiry Mint returns is the mint time plus the TTL; the
\* issued-at and expires-at of the claims minted play no part.
C23_ExpiryIsSecondOfMintPlusTTL ==
  MintDone =>
    LET p == minted.result.token.payload
        ttl == minted.minter.ttl
        iat == p.iat.whole * TicksPerSecond
        exp == p.exp.whole * TicksPerSecond
    IN /\ p.iat.type = "number" /\ p.iat.tenths = 0
       /\ iat <= minted.at /\ minted.at < iat + TicksPerSecond
       /\ p.exp.type = "number" /\ p.exp.tenths = 0
       /\ exp <= minted.at + ttl /\ minted.at + ttl < exp + TicksPerSecond
       /\ ttl % TicksPerSecond = 0 => exp = iat + ttl
       /\ exp - (iat + ttl) < TicksPerSecond /\ (iat + ttl) - exp < TicksPerSecond
       /\ minted.result.exp = minted.at + ttl

C23_Witness ==
  /\ MintDone
  /\ minted.at % TicksPerSecond # 0
  /\ minted.minter.ttl = TicksPerSecond + 1
  /\ minted.claims.IssuedAt = 5
  /\ minted.result.token.payload.exp.whole
       = minted.result.token.payload.iat.whole + 2
  /\ minted.result.token.payload.exp.whole # minted.claims.ExpiresAt

\* The value Validate returns for a claim: the claim's, or the zero value
\* when the claim is absent or of another type.
Defaulted(c, p) ==
  /\ \A f \in {"iss", "sub", "aud", "jti", "repo", "ref", "actor", "run_id"} :
       p[f].type # "string" =>
         (CASE f = "iss" -> c.Issuer [] f = "sub" -> c.Subject
            [] f = "aud" -> c.Audience [] f = "jti" -> c.JTI
            [] f = "repo" -> c.Repo [] f = "ref" -> c.Ref
            [] f = "actor" -> c.Actor [] f = "run_id" -> c.RunID) = ""
  /\ p.iat.type # "number" => c.IssuedAt = 0
  /\ p.exp.type # "number" => c.ExpiresAt = 0
  /\ p.scopes.type # "array" => c.Scopes = <<>>

\* C24 as stated: Validate fails exactly when the token is malformed, its
\* signature is not the secret's, its alg is not an HMAC one or it is
\* expired; a claim that is absent or of another type never makes it fail
\* and comes back as the zero value.
C24_OnlyListedFailures ==
  ValidateDone =>
    LET tok == validated.token
        listed == \/ ~tok.wellFormed
                  \/ tok.alg \notin HMACAlgs
                  \/ tok.sig # validated.minter.secret
                  \/ /\ tok.payload.exp.type = "number"
                     /\ validated.at >= EmbeddedExpiry(tok)
    IN /\ (validated.result.err # "") = listed
       /\ validated.result.err = "" =>
            Defaulted(validated.result.claims, tok.payload)

\* -------------------------------------------------------- handler claims
\* The place of a stage in the trace of t's request, 0 if it was not invoked.
Place(t, name) ==
  IF Invoked(t, name)
    THEN CHOOSE i \in 1..Len(trace[t]) : trace[t][i].stage = name
    ELSE 0

\* C25 as stated: within one request the policy check comes before the
\* rate-limit check, which comes before the mint: a request is inside the
\* limiter only after Evaluate was invoked for it, and Evaluate, Allow and
\* Mint appear in its trace in this order.
C25_PolicyBeforeRateLimit ==
  \A t \in Threads :
    /\ (req[t] # NoBody /\ InLimiter(t)) => Invoked(t, "Evaluate")
    /\ Invoked(t, "Allow") =>
         (Invoked(t, "Evaluate") /\ Place(t, "Evaluate") < Place(t, "Allow"))
    /\ Invoked(t, "Mint") =>
         (Invoked(t, "Allow") /\ Place(t, "Allow") < Place(t, "Mint"))

\* The one answer to a request whose assertion fails verification.
InvalidTokenAnswer ==
  respondError(StatusUnauthorized, "invalid_token", "failed to verify OIDC token")

\* C26: the answer to a request whose Verify call failed is the same
\* whatever the cause (the token's structure, algorithm, kid, signature,
\* window, issuer, audience or claims, or the key cache failing to fetch or
\* to find the key): status, error code and message are those of
\* InvalidTokenAnswer, and nothing else is written.
C26_OneAnswerForEveryCause ==
  /\ \A t \in Threads :
       (Returned(verified[t]) /\ verified[t].result.err # "" /\ trace[t] # <<>>) =>
         (resp[t] = <<InvalidTokenAnswer>> /\ pc[t] = "done")
  /\ \A k \in BadTokens :
       handleVerify(k, Verify(k, KeyResult("A1", ""), 0)).resp = <<InvalidTokenAnswer>>

C26_Witness ==
  \E t \in Threads :
    /\ Returned(verified[t]) /\ trace[t] = <<Stage("Verify", FALSE)>>
    /\ verified[t].key = KeyResult(NoKey, "failed to fetch JWKS")
    /\ verified[t].result.err = "failed to get public key"
    /\ verified[t].token.payload = GoodPayload
    /\ resp[t] = <<InvalidTokenAnswer>>

\* ------------------------------------------------- limiter claims, Reset
\* The calls answered from bucket i, as places in the logs, and those of
\* them that took a token before place j of key k's log.
OnBucket(k, i) == {j \in 1..Len(log[k]) : log[k][j].on = i}
TookBefore(k, i, j) == {h \in OnBucket(k, i) : h < j /\ log[k][h].ok}

\* C27: GetLimiterCount is the number of distinct keys getLimiter has served
\* since construction or the last Reset; it never decreases in a step other
\* than Reset, Reset sets it to 0, and the map then holds only buckets made
\* after the Reset, each granting, with no time elapsed, its first Burst
\* calls whatever the key's earlier bucket had left.
C27_CountIsKeysSinceReset ==
  /\ [](/\ GetLimiterCount = Cardinality(passed)
        /\ \A k \in Repos : limiters[k] # Nil =>
              /\ limiters[k] > lastReset.mark
              /\ \A j \in OnBucket(k, limiters[k]) :
                    log[k][j].op = "Allow" =>
                      (log[k][j].ok
                         = (Cardinality(TookBefore(k, limiters[k], j)) < Burst)))
  /\ [][IF lastReset' = lastReset
          THEN GetLimiterCount' >= GetLimiterCount
          ELSE GetLimiterCount' = 0]_vars

C27_Witness ==
  \E k \in Repos : \E i, j \in 1..Len(log[k]) :
    /\ i < j
    /\ log[k][i].op = "Allow" /\ log[k][i].ok
    /\ log[k][i].on <= lastReset.mark
    /\ Advance(heap[log[k][i].on], now) < TicksPerToken
    /\ lastReset.n = 1
    /\ log[k][j].op = "Allow" /\ log[k][j].ok /\ log[k][j].at = log[k][i].at
    /\ log[k][j].on = limiters[k]
    /\ GetLimiterCount = 1

\* ------------------------------------------- limiter claims, the buckets
\* The goroutine's step is the bucket's answer to its Allow call.
Answers(t) == pc[t] = "allow" /\ pc'[t] = "returned"

\* C28: the step in which a bucket answers an Allow call leaves the level of
\* every bucket as it was when the answer is false, and when it is true
\* lowers the level of the bucket of the call's key by one token and leaves
\* every other bucket as it was; no other step of a call touches a level.
C28_RefusedCallTakesNothing ==
  [][now' = now =>
       /\ \A i \in 1..Len(heap) :
            LET taker == {t \in Threads : Answers(t) /\ ret'[t] /\ lim[t] = i}
            IN /\ Advance(heap'[i], now) =
                    Advance(heap[i], now) - (IF taker = {} THEN 0 ELSE TicksPerToken)
               /\ taker = {} => heap'[i] = heap[i]
       /\ \A t \in Threads : Answers(t) => lim[t] = limiters[key[t]]]_vars

C28_Witness ==
  \E k, o \in Repos : \E j \in 2..Len(log[k]) :
    /\ k # o
    /\ log[k][j - 1].ok /\ ~log[k][j].ok
    /\ log[k][j].at = now /\ j = Len(log[k])
    /\ pc[log[k][j].by] = "returned" /\ ~ret[log[k][j].by]
    /\ Advance(heap[limiters[k]], now) \in 1..(TicksPerToken - 1)
    /\ limiters[o] # Nil /\ Advance(heap[limiters[o]], now) = BucketCap

\* The calls among places h..j of key k's log that were allowed.
AllowedIn(k, h, j) == {i \in h..j : log[k][i].ok}

\* C29: a call made at least one token's time after the key's previous call
\* is allowed, whatever that call left; and over any stretch of a key's
\* calls the allowed ones number at most Burst plus the tokens the elapsed
\* time refills, so back-to-back calls get at most Burst however long the
\* key was idle before.
C29_RefillAtRateCappedAtBurst ==
  \A k \in Repos : \A j \in 1..Len(log[k]) :
    /\ (j > 1 /\ log[k][j].at - log[k][j - 1].at >= TicksPerToken) => log[k][j].ok
    /\ \A h \in 1..j :
         Cardinality(AllowedIn(k, h, j))
           <= Burst + ((log[k][j].at - log[k][h].at) \div TicksPerToken)

C29_Witness ==
  \E k \in Repos :
    /\ Len(log[k]) = Burst + 2
    /\ log[k][1].ok /\ log[k][1].at = 0
    /\ \A j \in 2..(Burst + 2) : log[k][j].at = LongIdle
    /\ \A j \in 2..(Burst + 1) : log[k][j].ok
    /\ ~log[k][Burst + 2].ok

\* ------------------------------------------- verifier claims, the order
\* The signature of the call's token was verified: an RSA header with a
\* kid, the key found, and the signature made with it.
SignatureVerified(c) ==
  /\ parseHeader(c.token).err = ""
  /\ c.key.err = "" /\ c.token.sig = c.key.key
\* The checks an assertion fails at time t.
IssuerFails(p) == p.iss # Str(Issuer)
AudienceFails(p) == ~HasAudience(p)
OutOfWindow(p, t) ==
  \/ p.exp.type = "number" /\ p.exp.whole # 0 /\ t >= p.exp.whole + ClockSkew
  \/ p.nbf.type = "number" /\ p.nbf.whole # 0 /\ t < p.nbf.whole - ClockSkew

\* C30: once the signature is verified, the error Verify reports is that of
\* the first failing check in the order issuer, audience, expiration and
\* not-before: a wrong issuer is reported whatever else fails, a wrong
\* audience unless the issuer fails, the window only when both pass.
C30_IssuerAudienceThenWindow ==
  \A t \in Threads :
    (Returned(verified[t]) /\ SignatureVerified(verified[t])) =>
      LET p == verified[t].token.payload
          err == verified[t].result.err
      IN /\ IssuerFails(p) => err = "invalid issuer"
         /\ (~IssuerFails(p) /\ AudienceFails(p)) =>
              err \in {"invalid audience", "audience does not match"}
         /\ (~IssuerFails(p) /\ ~AudienceFails(p) /\ OutOfWindow(p, verified[t].at)) =>
              err \in {"token is expired", "token is not valid yet"}

\* ------------------------------------- verifier claims, the extraction
WorkflowError == "missing workflow_ref or job_workflow_ref claim"

\* C31: Verify rejects an assertion for its workflow reference only if
\* workflow_ref and job_workflow_ref are both absent; an assertion with a
\* non-empty job_workflow_ref is never rejected for it.
C31_WorkflowFallback ==
  \A t \in Threads :
    Returned(verified[t]) =>
      LET p == verified[t].token.payload
          err == verified[t].result.err
      IN /\ err = WorkflowError =>
              (p.workflow_ref.type = "absent" /\ p.job_workflow_ref.type = "absent")
         /\ NonEmpty(p.job_workflow_ref) => err # WorkflowError

\* A run identifier with its fractional part discarded.
Truncated(v) ==
  IF v.type = "string" THEN v.s
  ELSE IF v.type = "number" THEN ToDecimal(v.whole)
  ELSE ""

\* C32: the run identifier Verify returns is the assertion's string, or its
\* number as a decimal integer with the fractional part discarded; a
\* missing or otherwise typed run identifier makes Verify fail.
C32_RunIDTruncated ==
  \A t \in Threads :
    Returned(verified[t]) =>
      LET p == verified[t].token.payload
          r == verified[t].result
      IN /\ r.err = "" => r.claims.RunID = Truncated(p.run_id)
         /\ p.run_id.type \notin {"string", "number"} => r.err # ""

\* ----------------------------------------- verifier claims, the window
\* A call whose assertion is valid but for its window: signed by the key
\* found, the configured issuer and audience, and the required claims.
ValidButWindow(c) ==
  /\ SignatureVerified(c) /\ c.key.key # NoKey
  /\ c.token.payload.iss = Str(Issuer)
  /\ HasAudience(c.token.payload)
  /\ NonEmpty(c.token.payload.repository) /\ NonEmpty(c.token.payload.ref)
  /\ NonEmpty(c.token.payload.actor)
  /\ HasRunID(c.token.payload) /\ HasWorkflow(c.token.payload)

\* C33: an otherwise valid assertion with an expiration exp and a not-before
\* nbf is accepted at time t exactly when nbf - ClockSkew <= t and
\* t < exp + ClockSkew.
C33_SymmetricLeeway ==
  \A t \in Threads :
    LET c == verified[t] IN
    (Returned(c) /\ ValidButWindow(c)
       /\ c.token.payload.exp.type = "number" /\ c.token.payload.nbf.type = "number") =>
      LET exp == c.token.payload.exp
          nbf == c.token.payload.nbf
      IN (c.result.err = "") =
           (/\ 10 * (nbf.whole - ClockSkew) + nbf.tenths <= 10 * c.at
            /\ 10 * c.at < 10 * (exp.whole + ClockSkew) + exp.tenths)

\* C39: an assertion Verify accepts carries an expiration, which with the
\* leeway lies after the time of verification, and the expires-at of the
\* claims returned is not the zero time.
C39_AcceptedHasExpiry ==
  \A t \in Threads :
    LET c == verified[t] IN
    (Returned(c) /\ c.result.err = "") =>
      /\ c.token.payload.exp.type = "number"
      /\ 10 * c.at < 10 * (c.token.payload.exp.whole + ClockSkew)
                        + c.token.payload.exp.tenths
      /\ c.result.claims.ExpiresAt # ZeroTime

\* ---------------------------------------- verifier claims, the audience
\* A call that reaches the audience check: the signature verified, the
\* window passed and the issuer the configured one.
ReachesAudience(c) ==
  /\ SignatureVerified(c)
  /\ c.token.payload.exp.type \in {"number", "absent"}
  /\ c.token.payload.nbf.type \in {"number", "absent"}
  /\ ~OutOfWindow(c.token.payload, c.at)
  /\ ~IssuerFails(c.token.payload)

\* C34: an audience that is a string or an array passes the audience check
\* exactly when the configured audience is the string or one of the array's
\* strings, and fails it as a mismatch otherwise, an empty array included;
\* an audience of any other type, or none, fails as an invalid audience.
C34_AudienceStringOrArray ==
  \A t \in Threads :
    LET c == verified[t] IN
    (Returned(c) /\ ReachesAudience(c)) =>
      LET aud == c.token.payload.aud
          err == c.result.err
      IN IF aud.type \in {"string", "array"}
           THEN /\ HasAudience(c.token.payload) =>
                     err \notin {"invalid audience", "audience does not match"}
                /\ ~HasAudience(c.token.payload) => err = "audience does not match"
           ELSE err = "invalid audience"

C34_Witness ==
  \E t \in Threads :
    LET c == verified[t] IN
    /\ Returned(c) /\ ReachesAudience(c)
    /\ c.token.payload.aud = Arr(<<Str("other"), Num(1, 0), Str(Audience)>>)
    /\ c.result.err = ""
    /\ c.result.claims.Repository = "test/repo"

\* ------------------------------------------ key cache claims, the refresh
\* The places of a response's entries for kid k that have key type RSA and
\* parse, and the set a response amounts to: for each kid the last of them.
UsableAt(doc, k) ==
  {i \in 1..Len(doc) : doc[i].kid = k /\ doc[i].kty = "RSA" /\ doc[i].n # "!"}
Usable(doc) ==
  [k \in Kids |->
     IF UsableAt(doc, k) = {} THEN NoKey
     ELSE doc[CHOOSE i \in UsableAt(doc, k) : \A j \in UsableAt(doc, k) : j <= i].n]

\* C35: the step of a refresh that stores the set leaves in the cache
\* exactly the response's RSA entries that parse, nothing of the previous
\* set besides, and the step that ends the refresh stamps that set with the
\* current time, an empty set included.
C35_RefreshReplacesWholeSet ==
  /\ [](\A t \in Threads : pc[t] = "kstored" => keys = Usable(httpResp[t].doc))
  /\ [][\A t \in Threads :
          /\ (pc[t] = "kfetched" /\ Moves(t)) =>
                /\ pc'[t] = "kstored"
                /\ keys' = Usable(httpResp[t].doc)
          /\ (pc[t] = "kstored" /\ Moves(t)) =>
                /\ keys' = Usable(httpResp[t].doc)
                /\ fetchedAt' = now]_vars

C35_Witness ==
  \E t, u \in Threads :
    /\ t # u
    /\ pc[u] = "kreturned" /\ kid[u] = "kid2" /\ publicKey[u] = KeyResult("B2", "")
    /\ pc[t] = "kreturned" /\ httpResp[t].doc = DocC
    /\ publicKey[t].err = "not found"
    /\ keys = NoKeys /\ fetchedAt = now /\ now > 0

\* ------------------------------------------- verifier claims, liveness
\* C36: every Verify call returns, with claims or with an error, however
\* its fetch ends and whoever else waits for the key cache.
C36_VerifyReturns ==
  /\ \A t \in Threads : InVerify(t) ~> (pc[t] = "vreturned")
  /\ [](\A t \in Threads : pc[t] = "vreturned" => Returned(verified[t]))

C36_Witness ==
  \E t, u \in Threads :
    /\ pc[t] = "vreturned"
    /\ verified[t].key = KeyResult(NoKey, "failed to fetch JWKS")
    /\ verified[t].fetched = 1
    /\ verified[t].result.err = "failed to get public key"
    /\ pc[u] = "kfetching" /\ jwksMu = u /\ keys = NoKeys

\* ------------------------------------------- key cache claims, the lock
\* Goroutine t holds the write lock and waits for the provider's answer.
FetchInFlight(t) == pc[t] = "kfetching" /\ jwksMu = t

\* C37: a GetKey call at its read-locked check, for a kid that is cached in
\* a fresh set, is not held up by the fetch another caller has in flight.
C37_FreshReaderNotBlocked ==
  \A u \in Threads :
    (pc[u] = "krlock" /\ keys[kid[u]] # NoKey /\ Fresh(fetchedAt, now)) =>
       ~(\E t \in Threads \ {u} : FetchInFlight(t))

\* ------------------------------------------- key cache claims, staleness
GivesKey(r) == r.err = "" /\ r.key # NoKey

\* C38: a GetKey call that returns a key returns the key its kid has in the
\* cached set, and that set was fetched less than the TTL before the step
\* that returns; a call whose refresh of a set older than the TTL fails
\* returns an error and no key, also when the old set holds the kid.
C38_NoKeyFromStaleSet ==
  [][\A t \in Threads :
       /\ (InGetKey(t) /\ Moves(t) /\ pc'[t] = "kreturned" /\ GivesKey(publicKey'[t])) =>
             /\ publicKey'[t].key = keys'[kid[t]]
             /\ Fresh(fetchedAt', now)
       /\ (FetchInFlight(t) /\ Moves(t) /\ keys[kid[t]] # NoKey
            /\ ~Fresh(fetchedAt, now) /\ fetchJWKS(keys, httpResp'[t]).err) =>
             /\ pc'[t] = "kreturned"
             /\ ~GivesKey(publicKey'[t]) /\ publicKey'[t].err # ""
             /\ publicKey'[t].key = NoKey]_vars

C38_Witness ==
  \E t \in Threads :
    /\ pc[t] = "kreturned" /\ fetched[t] = 1
    /\ publicKey[t] = KeyResult(NoKey, "failed to fetch JWKS")
    /\ keys[kid[t]] # NoKey
    /\ fetchedAt # ZeroTime /\ now - fetchedAt >= JwksTTL

\* ------------------------------------------- limiter claims, Allow and Reset
\* The places of key k's log that follow, or are, a call answered from a
\* bucket made after the last Reset: calls answered after that Reset.
SinceReset(k) ==
  {j \in 1..Len(log[k]) : \E i \in 1..j : log[k][i].on > lastReset.mark}
GrantedSinceReset(k) ==
  {j \in SinceReset(k) : log[k][j].op = "Allow" /\ log[k][j].ok
                           /\ log[k][j].at = lastReset.at}

\* C40: an Allow call is answered from the bucket the map holds for its key
\* at that step, and of the Allow calls for one key answered after a Reset,
\* with no time elapsed, at most Burst are granted.
C40_AllowOnMapBucket ==
  /\ [](\A k \in Repos : lastReset.n > 0 =>
            Cardinality(GrantedSinceReset(k)) <= Burst)
  /\ [][\A t \in Threads : Answers(t) => lim[t] = limiters[key[t]]]_vars
====
